---- MODULE Spec2Model ----
(***************************************************************************)
(* A model of the SWG merchant ingestion pipeline (swg_merchant.py): the   *)
(* SQLite ledger (customers, sales, purchases, mail_ingests), the mail     *)
(* parser, the classifier and the per-artifact loop of main().             *)
(*                                                                         *)
(* Strings are TLA+ strings; None is a reserved string, NoId a reserved    *)
(* row id.  A Python exception is a value of the "err" field of a result.  *)
(* Every statement that writes is followed by a commit before anything in  *)
(* the same unit can raise, so a write is durable as soon as it is made.   *)
(***************************************************************************)
EXTENDS Integers, Sequences, FiniteSets, TLC

\* ------------------------------------------------------------------ values
None == "<None>"
NoId == 0

\* ------------------------------------------------------------- str helpers
Char(s, i) == SubSeq(s, i, i)

IsSpace(c) == c \in {" ", "\t"}

IsDigit(c) == c \in {"0", "1", "2", "3", "4", "5", "6", "7", "8", "9"}

Upper == <<"A", "B", "C", "D", "E", "F", "G", "H", "I", "J", "K", "L", "M",
           "N", "O", "P", "Q", "R", "S", "T", "U", "V", "W", "X", "Y", "Z">>

Lower == <<"a", "b", "c", "d", "e", "f", "g", "h", "i", "j", "k", "l", "m",
           "n", "o", "p", "q", "r", "s", "t", "u", "v", "w", "x", "y", "z">>

FoldChar(c) ==
    IF \E k \in 1..26 : Upper[k] = c
    THEN Lower[CHOOSE k \in 1..26 : Upper[k] = c]
    ELSE c

RECURSIVE casefold(_)
casefold(s) ==
    IF s = "" THEN "" ELSE FoldChar(Char(s, 1)) \o casefold(SubSeq(s, 2, Len(s)))

RECURSIVE lstrip(_)
lstrip(s) ==
    IF s # "" /\ IsSpace(Char(s, 1)) THEN lstrip(SubSeq(s, 2, Len(s))) ELSE s

RECURSIVE rstrip(_)
rstrip(s) ==
    IF s # "" /\ IsSpace(Char(s, Len(s))) THEN rstrip(SubSeq(s, 1, Len(s) - 1)) ELSE s

strip(s) == rstrip(lstrip(s))

\* w occurs in s at position i
OccursAt(s, w, i) == i >= 1 /\ i + Len(w) - 1 <= Len(s) /\ SubSeq(s, i, i + Len(w) - 1) = w

\* Python's "w in s"
In(w, s) == \E i \in 1..Len(s) : OccursAt(s, w, i)

\* first position >= i of s that is not white space (Len(s)+1 when none)
SkipSpaces(s, i) ==
    IF \E j \in i..Len(s) : ~IsSpace(Char(s, j))
    THEN CHOOSE j \in i..Len(s) : ~IsSpace(Char(s, j)) /\ \A k \in i..(j - 1) : IsSpace(Char(s, k))
    ELSE Len(s) + 1

\* first position >= i of s that is not a digit (Len(s)+1 when none)
SkipDigits(s, i) ==
    IF \E j \in i..Len(s) : ~IsDigit(Char(s, j))
    THEN CHOOSE j \in i..Len(s) : ~IsDigit(Char(s, j)) /\ \A k \in i..(j - 1) : IsDigit(Char(s, k))
    ELSE Len(s) + 1

DigitVal(c) == CHOOSE d \in 0..9 : Char("0123456789", d + 1) = c

\* int() of a string of decimal digits
RECURSIVE int(_)
int(s) ==
    IF s = "" THEN 0 ELSE 10 * int(SubSeq(s, 1, Len(s) - 1)) + DigitVal(Char(s, Len(s)))

Min(S) == CHOOSE x \in S : \A y \in S : x <= y

\* s <= t for two strings of decimal digits read as numbers (of any size)
RECURSIVE lstrip0(_)
lstrip0(s) == IF Len(s) > 1 /\ Char(s, 1) = "0" THEN lstrip0(SubSeq(s, 2, Len(s))) ELSE s

RECURSIVE LexLE(_, _)
LexLE(s, t) ==
    IF s = "" THEN TRUE
    ELSE IF DigitVal(Char(s, 1)) # DigitVal(Char(t, 1))
         THEN DigitVal(Char(s, 1)) < DigitVal(Char(t, 1))
         ELSE LexLE(SubSeq(s, 2, Len(s)), SubSeq(t, 2, Len(t)))

NumLE(s, t) ==
    LET a == lstrip0(s)
        b == lstrip0(t)
    IN  IF Len(a) # Len(b) THEN Len(a) < Len(b) ELSE LexLE(a, b)

\* --------------------------------------------------------------- artifacts
(* A file is [readable, text, mtime]: text is the sequence of its raw       *)
(* lines, readable is FALSE when open() raises OSError.                    *)

\* Path.open + the loop of get_mail_identity: (mail_id, mtime), or OSError
get_mail_identity(f) ==
    IF ~f.readable THEN [err |-> "OSError", mail_id |-> None, mtime |-> 0]
    ELSE LET nonempty == {k \in 1..Len(f.text) : strip(f.text[k]) # ""}
         IN  [err |-> None,
              mail_id |-> IF nonempty = {} THEN None ELSE strip(f.text[Min(nonempty)]),
              mtime |-> f.mtime]

\* [ln.strip() for ln in f if ln.strip()]
RECURSIVE StripNonEmpty(_)
StripNonEmpty(text) ==
    IF text = <<>> THEN <<>>
    ELSE IF strip(Head(text)) = "" THEN StripNonEmpty(Tail(text))
         ELSE <<strip(Head(text))>> \o StripNonEmpty(Tail(text))

read_nonempty_lines(f) == StripNonEmpty(f.text)

\* ------------------------------------------------------------------ regexes
(* A regex search is computed on the case-folded line (re.IGNORECASE) and   *)
(* the groups are cut from the line itself.  Greedy white space runs take   *)
(* the whole run; a lazy group ends at the first delimiter after which the  *)
(* rest of the pattern matches; a group made only of white space is tried   *)
(* last, as backtracking into the preceding run does.                       *)

\* TS_RE.search: the digits of the leftmost "TIMESTAMP:\s*\d+", or None
TS_RE_search(line) ==
    LET F == casefold(line)
        digitsAt(i) == SkipSpaces(F, i + 10)
        hits == {i \in 1..Len(F) : OccursAt(F, "timestamp:", i)
                                    /\ digitsAt(i) <= Len(F) /\ IsDigit(Char(F, digitsAt(i)))}
    IN  IF hits = {} THEN None
        ELSE LET d == digitsAt(Min(hits))
             IN  SubSeq(line, d, SkipDigits(F, d) - 1)

\* "\s+for\s+(\d+)\s+credits" matches with "for" at position p of F
ForAt(F, p) ==
    LET d == SkipSpaces(F, p + 3)
        e == SkipDigits(F, d)
        c == SkipSpaces(F, e)
    IN  /\ OccursAt(F, "for", p) /\ p > 1 /\ IsSpace(Char(F, p - 1))
        /\ d > p + 3 /\ d <= Len(F) /\ IsDigit(Char(F, d))
        /\ c > e /\ OccursAt(F, "credits", c)

\* the keyword w, between white space, at position p of F
KeywordAt(F, w, p) ==
    /\ OccursAt(F, w, p) /\ p > 1 /\ IsSpace(Char(F, p - 1))
    /\ p + Len(w) <= Len(F) /\ IsSpace(Char(F, p + Len(w)))

(* The delimiter a lazy group stops at, among the positions S where the   *)
(* rest of the pattern matches.  The group starts after the run of white   *)
(* space at position from; lead is the least number of characters the      *)
(* pattern needs before the group (0 after \s*, 1 after \s+).  0: none.    *)
LazyStop(F, from, lead, S) ==
    LET start == SkipSpaces(F, from)
        proper == {p \in S : p >= start + 2}
    IN  IF proper # {} THEN Min(proper)
        ELSE IF start - from >= lead + 2 /\ start \in S THEN start
        ELSE 0

\* SALE_RE.search: the four groups, stripped as parse_mail_file strips them
SALE_RE_search(line) ==
    LET F == casefold(line)
        fors == {p \in 1..Len(F) : ForAt(F, p)}
        tos == {p \in 1..Len(F) : KeywordAt(F, "to", p) /\ LazyStop(F, p + 2, 1, fors) # 0}
        solds == {p \in 1..Len(F) :
                    KeywordAt(F, "has sold", p) /\ LazyStop(F, p + 8, 1, tos) # 0}
        hits == {v \in 1..Len(F) :
                    OccursAt(F, "vendor:", v) /\ LazyStop(F, v + 7, 0, solds) # 0}
        v == Min(hits)
        h == LazyStop(F, v + 7, 0, solds)
        t == LazyStop(F, h + 8, 1, tos)
        p == LazyStop(F, t + 2, 1, fors)
        d == SkipSpaces(F, p + 3)
    IN  IF hits = {} THEN [matched |-> FALSE]
        ELSE [matched |-> TRUE,
              vendor |-> strip(SubSeq(line, v + 7, h - 1)),
              item |-> strip(SubSeq(line, h + 8, t - 1)),
              customer |-> strip(SubSeq(line, t + 2, p - 1)),
              amount |-> SubSeq(line, d, SkipDigits(F, d) - 1)]

PurchaseHead == "you have won the auction of \""

PurchaseFrom == "\" from \""

\* "\" for (\d+) credits" matches with the quote at position p of F
PurchaseForAt(F, p) ==
    /\ OccursAt(F, "\" for ", p) /\ p + 6 <= Len(F) /\ IsDigit(Char(F, p + 6))
    /\ OccursAt(F, " credits", SkipDigits(F, p + 6))

\* the first position >= from in S, 0 when none
FirstFrom(S, from) == IF {p \in S : p >= from} = {} THEN 0 ELSE Min({p \in S : p >= from})

\* PURCHASE_RE.search: the three groups, stripped as parse_mail_file strips them
PURCHASE_RE_search(line) ==
    LET F == casefold(line)
        fors == {p \in 1..Len(F) : PurchaseForAt(F, p)}
        froms == {q \in 1..Len(F) : OccursAt(F, PurchaseFrom, q)
                                      /\ FirstFrom(fors, q + Len(PurchaseFrom) + 1) # 0}
        hits == {i \in 1..Len(F) : OccursAt(F, PurchaseHead, i)
                                     /\ FirstFrom(froms, i + Len(PurchaseHead) + 1) # 0}
        i == Min(hits)
        q == FirstFrom(froms, i + Len(PurchaseHead) + 1)
        p == FirstFrom(fors, q + Len(PurchaseFrom) + 1)
    IN  IF hits = {} THEN [matched |-> FALSE]
        ELSE [matched |-> TRUE,
              item |-> strip(SubSeq(line, i + Len(PurchaseHead), q - 1)),
              vendor |-> strip(SubSeq(line, q + Len(PurchaseFrom), p - 1)),
              amount |-> SubSeq(line, p + 6, SkipDigits(F, p + 6) - 1)]

\* -------------------------------------------------------------------- parser
\* the largest Unix time datetime.fromtimestamp() renders (year 9999)
MaxTimestamp == "253402300799"

\* the largest integer SQLite stores
SqliteMaxInt == "9223372036854775807"

\* stands for every Python int above SqliteMaxInt
TooLarge == 2147483647

(* The integers near a multiple of 2^62 are written k * 2^62 + r, with r  *)
(* small, and are named by a number of their own above every small one:   *)
(* Wide + k * WideUnit + r. The names are ordered as the integers are.    *)
Wide == 1073741824

WideUnit == 16777216

wide_k(n) == IF n < Wide THEN 0 ELSE (n - Wide + WideUnit \div 2) \div WideUnit

wide_r(n) ==
    IF n < Wide THEN n ELSE ((n - Wide + WideUnit \div 2) % WideUnit) - WideUnit \div 2

wide(k, r) == IF k = 0 THEN r ELSE Wide + k * WideUnit + r

\* the decimal numerals of 2^62 and 2^63
Pow62 == <<"4611686018427387904", "9223372036854775808">>

\* the integer a numeral near k * 2^62 names
near_int(s, k) ==
    wide(k, int(SubSeq(s, 11, Len(s))) - int(SubSeq(Pow62[k], 11, Len(Pow62[k]))))

(* int(s) for a numeral s below 2^31 or near 2^62 or 2^63 (of their length *)
(* and with their first ten digits)                                        *)
big_int(s) ==
    LET t == lstrip0(s)
        near(b) == Len(t) = Len(b) /\ SubSeq(t, 1, 10) = SubSeq(b, 1, 10)
    IN  IF near(Pow62[1]) THEN near_int(t, 1)
        ELSE IF near(Pow62[2]) THEN near_int(t, 2)
        ELSE int(t)

\* int(group) for a group of digits
PyInt(digits) == IF NumLE(digits, SqliteMaxInt) THEN big_int(digits) ELSE TooLarge

\* the spacing of the doubles around k * 2^62 + r
ulp(k, r) ==
    LET b == IF r < 0 THEN k - 1 ELSE k
    IN  IF k = 0 THEN 1
        ELSE IF b = 0 THEN 512
        ELSE IF b = 1 THEN 1024
        ELSE IF b <= 3 THEN 2048
        ELSE IF b <= 7 THEN 4096
        ELSE IF b <= 15 THEN 8192
        ELSE IF b <= 31 THEN 16384
        ELSE 32768

\* the double nearest to the integer n, ties to the even mantissa
to_double(n) ==
    LET k == wide_k(n)
        r == wide_r(n)
        u == ulp(k, r)
        q == r \div u
        m == r % u
    IN  IF 2 * m < u THEN wide(k, q * u)
        ELSE IF 2 * m > u THEN wide(k, (q + 1) * u)
        ELSE IF q % 2 = 0 THEN wide(k, q * u)
        ELSE wide(k, (q + 1) * u)

\* the sum of two integers, exact
exact_add(a, b) == wide(wide_k(a) + wide_k(b), wide_r(a) + wide_r(b))

\* n is an integer SQLite stores as INTEGER
fits_int64(n) == wide_k(n) < 2 \/ (wide_k(n) = 2 /\ wide_r(n) < 0)

(* a + b as SQLite computes it for a stored number a and an integer b:    *)
(* in 64-bit integers, and in doubles once the integer sum overflows or a *)
(* is a REAL already                                                       *)
sqlite_add(a, b) ==
    IF fits_int64(exact_add(a, b)) THEN exact_add(a, b)
    ELSE to_double(exact_add(to_double(a), to_double(b)))

\* datetime.fromtimestamp(ts).strftime(...): the wall-clock second of the
\* host's zone, which the rendered string names one to one
fromtimestamp(ts, tz) == ts + tz

NoEntry == [type |-> None]

\* the dict of a sale whose body line gave the match sm
sale_entry(sm, sale_date) ==
    IF ~sm.matched THEN [err |-> None, entry |-> NoEntry]
    ELSE [err |-> None,
          entry |-> [type |-> "sale", sale_date |-> sale_date, vendor |-> sm.vendor,
                     item |-> sm.item, customer |-> sm.customer,
                     amount |-> PyInt(sm.amount)]]

\* the dict of a purchase whose body line gave the match pm
purchase_entry(pm, sale_date) ==
    IF ~pm.matched THEN [err |-> None, entry |-> NoEntry]
    ELSE [err |-> None,
          entry |-> [type |-> "purchase", sale_date |-> sale_date, vendor |-> pm.vendor,
                     item |-> pm.item, amount |-> PyInt(pm.amount)]]

\* a parse that dates a mail without TIMESTAMP field at second 0
parse_event_default_ts(event_line, ts, sale_line, tzo) ==
    IF ts # None /\ ~NumLE(ts, MaxTimestamp) THEN [err |-> "ValueError", entry |-> NoEntry]
    ELSE IF In("Vendor Sale Complete", event_line)
         THEN sale_entry(SALE_RE_search(sale_line),
                         fromtimestamp(IF ts = None THEN 0 ELSE int(ts), tzo))
    ELSE IF In("Vendor Item Purchased", event_line)
         THEN purchase_entry(PURCHASE_RE_search(sale_line),
                             fromtimestamp(IF ts = None THEN 0 ELSE int(ts), tzo))
    ELSE [err |-> None, entry |-> NoEntry]

\* parse_mail_file from the timestamp on: ts is TS_RE.search(timestamp_line)
parse_event(event_line, ts, sale_line, tzo) ==
    IF ts = None THEN [err |-> None, entry |-> NoEntry]
    ELSE IF ~NumLE(ts, MaxTimestamp) THEN [err |-> "ValueError", entry |-> NoEntry]
    ELSE IF In("Vendor Sale Complete", event_line)
         THEN sale_entry(SALE_RE_search(sale_line), fromtimestamp(int(ts), tzo))
    ELSE IF In("Vendor Item Purchased", event_line)
         THEN purchase_entry(PURCHASE_RE_search(sale_line), fromtimestamp(int(ts), tzo))
    ELSE [err |-> None, entry |-> NoEntry]

\* parse_mail_file once the non-empty lines are read
parse_lines(lines, tzo) ==
    IF Len(lines) < 6 THEN [err |-> None, entry |-> NoEntry]
    ELSE parse_event(lines[3], TS_RE_search(lines[4]), lines[5], tzo)

(* parse_mail_file: err is the exception that leaves the function (the    *)
(* read error is caught inside, the range error of fromtimestamp is not), *)
(* entry is the dict returned, NoEntry for None.                           *)
parse_mail_file(f, tzo) ==
    IF ~f.readable THEN [err |-> None, entry |-> NoEntry]
    ELSE parse_lines(read_nonempty_lines(f), tzo)

\* re.sub(r"\s*\|\s*Epak\s*$", "", item, flags=re.IGNORECASE)
trim_epak(item) ==
    LET F == casefold(item)
        t == rstrip(F)
        bar == rstrip(SubSeq(t, 1, Len(t) - 4))
    IN  IF Len(t) >= 4 /\ OccursAt(t, "epak", Len(t) - 3)
           /\ bar # "" /\ Char(bar, Len(bar)) = "|"
        THEN rstrip(SubSeq(item, 1, Len(bar) - 1))
        ELSE item

\* ---------------------------------------------------------------- classifier
\* any(w in i for w in ws)
any_in(ws, i) == \E w \in ws : In(w, i)

armor_category(i) ==
    IF In("bone", i) THEN "Bone Armor"
    ELSE IF In("composite", i) THEN "Composite"
    ELSE IF In("psg", i) \/ In("personal shield", i) THEN "PSG"
    ELSE IF In("r.i.s.", i) THEN "RIS"
    ELSE IF In("tantel", i) THEN "Tantel"
    ELSE None

\* weapons_category with the rule of the curved sword before the two-handed one
weapons_category_sword_first(i) ==
    IF In("carbine", i) THEN "Carbine"
    ELSE IF In("curved sword", i) THEN "One Hand"
    ELSE IF In("two-handed curved sword", i) THEN "Two Hand"
    ELSE IF In("rifle", i) THEN "Rifle"
    ELSE IF In("vibro knuckler", i) THEN "Unarmed"
    ELSE IF In("flame thrower", i) \/ In("flamethrower", i) \/ In("launcher pistol", i)
         THEN "Commando"
    ELSE IF In("pistol", i) \/ In("dl44 xt", i) THEN "Pistol"
    ELSE IF In("long vibro axe", i) \/ In("nightsister energy lance", i) THEN "Polearm"
    ELSE None

weapons_category(i) ==
    IF In("carbine", i) THEN "Carbine"
    ELSE IF In("two-handed curved sword", i) THEN "Two Hand"
    ELSE IF In("curved sword", i) THEN "One Hand"
    ELSE IF In("rifle", i) THEN "Rifle"
    ELSE IF In("vibro knuckler", i) THEN "Unarmed"
    ELSE IF In("flame thrower", i) \/ In("flamethrower", i) \/ In("launcher pistol", i)
         THEN "Commando"
    ELSE IF In("pistol", i) \/ In("dl44 xt", i) THEN "Pistol"
    ELSE IF In("long vibro axe", i) \/ In("nightsister energy lance", i) THEN "Polearm"
    ELSE None

world_drops_category(i) ==
    IF any_in({"[ca]", "[aa]"}, i) THEN "Tapes"
    ELSE IF any_in({"crystal", "pearl"}, i) THEN "Crystal"
    ELSE IF any_in({"geonosian power", "venom"}, i) THEN "Component"
    ELSE IF In("holocron", i) THEN "Misc"
    ELSE IF In("nightsister clothing", i) THEN "Schematic"
    ELSE IF In("schematic", i) THEN "Schematics"
    ELSE IF In("treasure map", i) THEN "Treasure Map"
    ELSE IF In("carbine", i) THEN "Carbine"
    ELSE IF In("two-handed curved sword", i) THEN "Two Hand"
    ELSE IF In("curved sword", i) THEN "One Hand"
    ELSE IF In("rifle", i) THEN "Rifle"
    ELSE IF In("pistol", i) \/ In("dl44 xt", i) THEN "Pistol"
    ELSE IF In("long vibro axe", i) \/ In("nightsister energy lance", i) THEN "Polearm"
    ELSE None

pharmaceuticals_class(i) ==
    IF any_in({"active", "coagulant", "fear release", "scent", "tensile"}, i)
    THEN <<"Bio-Engineer", "BE Tissue">>
    ELSE IF any_in({"buff", "enhance", "small stimpack"}, i)
         THEN <<"Doctor", IF any_in({"buff", "enhance"}, i) THEN "Buff Packs" ELSE "Stimpack">>
    ELSE IF In("hssiss", i) THEN <<"Combat Medic", "Dart">>
    ELSE IF In("pet stimpack", i) \/ In("vitality", i) THEN <<"Bio-Engineer", "Stimpack">>
    ELSE <<None, None>>

\* purchase_category with a category for the items no rule names
purchase_category_with_default(i) ==
    IF In("geonosian power cube", i) THEN "Component"
    ELSE IF In("blood", i) THEN "Blood"
    ELSE IF In("aurilian plant", i) THEN "Aurilian"
    ELSE IF In("cpu>", i) THEN "Resources"
    ELSE "Misc"

purchase_category(i) ==
    IF In("geonosian power cube", i) THEN "Component"
    ELSE IF In("blood", i) THEN "Blood"
    ELSE IF In("aurilian plant", i) THEN "Aurilian"
    ELSE IF In("cpu>", i) THEN "Resources"
    ELSE None

\* classify_vendor_and_item: <<profession, category>>
classify_vendor_and_item(entry_type, vendor, item) ==
    LET v == casefold(vendor)
        i == casefold(item)
    IN  IF entry_type = "sale"
        THEN IF In("armor and vehicles", v)
             THEN IF any_in({"ab-1", "eta-1", "flare s swoop", "xj-6", "basilisk war droid"}, i)
                  THEN <<"Artisan", "Vehicle">>
                  ELSE <<"Armorsmith", armor_category(i)>>
             ELSE IF In("buffbot", v) THEN <<"Doctor", "Buff">>
             ELSE IF In("chef", v) THEN <<"Chef", "Chef">>
             ELSE IF In("pets", v)
                  THEN <<"Bio-Engineer", IF In("egg", i) THEN "Incubation" ELSE "Pet">>
             ELSE IF In("pharmaceuticals", v) THEN pharmaceuticals_class(i)
             ELSE IF In("resources", v) THEN <<"Artisan", "Resources">>
             ELSE IF In("weapons", v) THEN <<"Weaponsmith", weapons_category(i)>>
             ELSE IF In("world drops", v) THEN <<"loot", world_drops_category(i)>>
             ELSE <<None, None>>
        ELSE IF entry_type = "purchase" THEN <<None, purchase_category(i)>>
        ELSE <<None, None>>

\* -------------------------------------------------------------------- ledger
(* A database is [customers, sales, purchases, mail_ingests, seq]: four     *)
(* sets of rows and the AUTOINCREMENT counters (ids are never reused).      *)
(* inserted_at, the wall clock of the write, is not modelled.               *)
EmptyDb ==
    [customers |-> {}, sales |-> {}, purchases |-> {}, mail_ingests |-> {},
     seq |-> [customers |-> 0, sales |-> 0, purchases |-> 0, mail_ingests |-> 0]]

\* CHECK ((sale_id IS NOT NULL AND purchase_id IS NULL) OR (... the converse))
\* the table without its CHECK on the two links
mail_ingests_check_off(r) == TRUE

mail_ingests_check(r) ==
    \/ r.sale_id # NoId /\ r.purchase_id = NoId
    \/ r.sale_id = NoId /\ r.purchase_id # NoId

\* file_path TEXT NOT NULL UNIQUE
mail_ingests_unique_path(rows) ==
    \A r1, r2 \in rows : r1.file_path = r2.file_path => r1 = r2

\* UNIQUE (mail_id): NULLs are distinct from each other
\* the table without UNIQUE on mail_id
mail_ingests_unique_mail_id_off(rows) == TRUE

mail_ingests_unique_mail_id(rows) ==
    \A r1, r2 \in rows : (r1.mail_id # None /\ r1.mail_id = r2.mail_id) => r1 = r2

\* FOREIGN KEY (sale_id) REFERENCES sales(id), (purchase_id) REFERENCES purchases(id)
mail_ingests_fk(db, r) ==
    /\ r.sale_id # NoId => \E s \in db.sales : s.id = r.sale_id
    /\ r.purchase_id # NoId => \E q \in db.purchases : q.id = r.purchase_id

\* the constraints of mail_ingests on the table a statement leaves
mail_ingests_ok(db, rows) ==
    /\ \A r \in rows : mail_ingests_check(r) /\ mail_ingests_fk(db, r)
    /\ mail_ingests_unique_path(rows)
    /\ mail_ingests_unique_mail_id(rows)

\* the tables without their CHECK on amount
amount_check_off(amount) == TRUE

\* amount INTEGER NOT NULL CHECK (amount >= 0)
amount_check(amount) == amount >= 0

\* a lookup that takes the customer whose name is the same up to case
get_or_create_customer_nocase(db, name) ==
    IF \E c \in db.customers : casefold(c.name) = casefold(name)
    THEN [db |-> db,
          id |-> (CHOOSE c \in db.customers : casefold(c.name) = casefold(name)).id]
    ELSE LET id == db.seq.customers + 1
         IN  [db |-> [db EXCEPT !.customers = @ \cup {[id |-> id, name |-> name,
                                                       total_spent |-> 0,
                                                       total_purchases |-> 0]},
                                !.seq.customers = id],
              id |-> id]

get_or_create_customer(db, name) ==
    IF \E c \in db.customers : c.name = name
    THEN [db |-> db, id |-> (CHOOSE c \in db.customers : c.name = name).id]
    ELSE LET id == db.seq.customers + 1
         IN  [db |-> [db EXCEPT !.customers = @ \cup {[id |-> id, name |-> name,
                                                       total_spent |-> 0,
                                                       total_purchases |-> 0]},
                                !.seq.customers = id],
              id |-> id]

\* the lookup by path alone
is_mail_processed_by_path(db, mail_id, file_path) ==
    \E r \in db.mail_ingests : r.file_path = file_path

is_mail_processed(db, mail_id, file_path) ==
    \/ mail_id # None /\ \E r \in db.mail_ingests : r.mail_id = mail_id
    \/ \E r \in db.mail_ingests : r.file_path = file_path

\* the INSERT alone, without the UPDATE by path before it, into a table whose
\* file_path is not UNIQUE
upsert_mail_ingest_insert_only(db, mail_id, file_path, file_mtime, sale_id, purchase_id) ==
    LET id == db.seq.mail_ingests + 1
        row == [id |-> id, mail_id |-> mail_id, file_path |-> file_path,
                file_mtime |-> file_mtime, sale_id |-> sale_id, purchase_id |-> purchase_id]
        added == db.mail_ingests \cup {row}
    IN  IF (sale_id = NoId) = (purchase_id = NoId) THEN [err |-> "ValueError", db |-> db]
        ELSE IF /\ mail_ingests_check(row) /\ mail_ingests_fk(db, row)
                /\ mail_ingests_unique_mail_id(added)
             THEN [err |-> None, db |-> [db EXCEPT !.mail_ingests = added,
                                                    !.seq.mail_ingests = id]]
        ELSE [err |-> "IntegrityError", db |-> db]

\* the upsert without its test of the two links
upsert_mail_ingest_unguarded(db, mail_id, file_path, file_mtime, sale_id, purchase_id) ==
    LET coalesce(new, old) == IF new # NoId THEN new ELSE old
        hit == {r \in db.mail_ingests : r.file_path = file_path}
        updated == (db.mail_ingests \ hit) \cup
                   {[r EXCEPT !.mail_id = IF mail_id # None THEN mail_id ELSE @,
                              !.file_mtime = file_mtime,
                              !.sale_id = coalesce(sale_id, @),
                              !.purchase_id = coalesce(purchase_id, @)] : r \in hit}
        id == db.seq.mail_ingests + 1
        added == db.mail_ingests \cup
                 {[id |-> id, mail_id |-> mail_id, file_path |-> file_path,
                   file_mtime |-> file_mtime, sale_id |-> sale_id,
                   purchase_id |-> purchase_id]}
    IN  IF hit # {}
        THEN IF mail_ingests_ok(db, updated)
             THEN [err |-> None, db |-> [db EXCEPT !.mail_ingests = updated]]
             ELSE [err |-> "IntegrityError", db |-> db]
        ELSE IF mail_ingests_ok(db, added)
             THEN [err |-> None, db |-> [db EXCEPT !.mail_ingests = added,
                                                    !.seq.mail_ingests = id]]
        ELSE [err |-> "IntegrityError", db |-> db]

upsert_mail_ingest(db, mail_id, file_path, file_mtime, sale_id, purchase_id) ==
    LET coalesce(new, old) == IF new # NoId THEN new ELSE old
        hit == {r \in db.mail_ingests : r.file_path = file_path}
        updated == (db.mail_ingests \ hit) \cup
                   {[r EXCEPT !.mail_id = IF mail_id # None THEN mail_id ELSE @,
                              !.file_mtime = file_mtime,
                              !.sale_id = coalesce(sale_id, @),
                              !.purchase_id = coalesce(purchase_id, @)] : r \in hit}
        id == db.seq.mail_ingests + 1
        added == db.mail_ingests \cup
                 {[id |-> id, mail_id |-> mail_id, file_path |-> file_path,
                   file_mtime |-> file_mtime, sale_id |-> sale_id,
                   purchase_id |-> purchase_id]}
    IN  IF (sale_id = NoId) = (purchase_id = NoId) THEN [err |-> "ValueError", db |-> db]
        ELSE IF hit # {}
             THEN IF mail_ingests_ok(db, updated)
                  THEN [err |-> None, db |-> [db EXCEPT !.mail_ingests = updated]]
                  ELSE [err |-> "IntegrityError", db |-> db]
        ELSE IF mail_ingests_ok(db, added)
             THEN [err |-> None, db |-> [db EXCEPT !.mail_ingests = added,
                                                    !.seq.mail_ingests = id]]
        ELSE [err |-> "IntegrityError", db |-> db]

\* the query over the sales alone
has_incomplete_rows_for_file_sales_only(db, file_path) ==
    \E mi \in db.mail_ingests : \E s \in db.sales :
        /\ s.id = mi.sale_id /\ mi.file_path = file_path
        /\ (s.profession = None \/ s.category = None)

has_incomplete_rows_for_file(db, file_path) ==
    \/ \E mi \in db.mail_ingests : \E s \in db.sales :
          /\ s.id = mi.sale_id /\ mi.file_path = file_path
          /\ (s.profession = None \/ s.category = None)
    \/ \E mi \in db.mail_ingests : \E q \in db.purchases :
          /\ q.id = mi.purchase_id /\ mi.file_path = file_path
          /\ q.category = None

insert_purchase(db, sale_date, item, vendor, amount, category) ==
    LET id == db.seq.purchases + 1
    IN  IF amount = TooLarge THEN [err |-> "OverflowError", db |-> db, id |-> NoId]
        ELSE IF ~amount_check(amount) THEN [err |-> "IntegrityError", db |-> db, id |-> NoId]
        ELSE [err |-> None,
              db |-> [db EXCEPT !.purchases = @ \cup {[id |-> id, sale_date |-> sale_date,
                                                       item |-> item, vendor |-> vendor,
                                                       amount |-> amount,
                                                       category |-> category]},
                                !.seq.purchases = id],
              id |-> id]

insert_sale(db, sale_date, vendor, item, customer, amount, profession, category) ==
    LET cust == get_or_create_customer(db, customer)
        id == cust.db.seq.sales + 1
        row == [id |-> id, sale_date |-> sale_date, vendor |-> vendor, item |-> item,
                customer_id |-> cust.id, amount |-> amount, profession |-> profession,
                category |-> category]
    IN  IF amount = TooLarge THEN [err |-> "OverflowError", db |-> cust.db, id |-> NoId]
        ELSE IF ~amount_check(amount)
             THEN [err |-> "IntegrityError", db |-> cust.db, id |-> NoId]
        ELSE [err |-> None,
              db |-> [cust.db EXCEPT
                        !.sales = @ \cup {row},
                        !.seq.sales = id,
                        !.customers = {IF c.id = cust.id
                                       THEN [c EXCEPT !.total_spent = sqlite_add(@, amount),
                                                      !.total_purchases = @ + 1]
                                       ELSE c : c \in @}],
              id |-> id]

\* -------------------------------------------------------------- CSV importer
(* import_sales_csv.py keeps its own copies of SCHEMA, ensure_db,          *)
(* get_or_create_customer and insert_sale, the same text as in             *)
(* swg_merchant.py: the operators above stand for both.                    *)

\* s.replace(c, "")
RECURSIVE remove_char(_, _)
remove_char(s, c) ==
    IF s = "" THEN ""
    ELSE IF Char(s, 1) = c THEN remove_char(SubSeq(s, 2, Len(s)), c)
    ELSE Char(s, 1) \o remove_char(SubSeq(s, 2, Len(s)), c)

AllDigits(s) == \A i \in 1..Len(s) : IsDigit(Char(s, i))

\* the position of the first c in s, Len(s) + 1 when there is none
FindChar(s, c) == Min({i \in 1..Len(s) : Char(s, i) = c} \cup {Len(s) + 1})

(* int(float(s)) for a plain decimal numeral s, with an optional sign and *)
(* an optional fraction (the prices of the model carry no exponent):      *)
(* float() rounds to the nearest double, int() cuts the fraction.         *)
int_float(s) ==
    LET t == strip(s)
        signed == t # "" /\ Char(t, 1) \in {"-", "+"}
        neg == t # "" /\ Char(t, 1) = "-"
        body == IF signed THEN SubSeq(t, 2, Len(t)) ELSE t
        dot == FindChar(body, ".")
        whole == SubSeq(body, 1, dot - 1)
        frac == SubSeq(body, dot + 1, Len(body))
        digits == lstrip0(IF whole = "" THEN "0" ELSE whole)
        mag == IF Len(digits) > Len(Pow62[2]) THEN TooLarge ELSE to_double(big_int(digits))
    IN  IF ~AllDigits(whole) \/ ~AllDigits(frac) \/ (whole = "" /\ frac = "")
        THEN [err |-> "ValueError", value |-> 0]
        ELSE IF neg
             THEN [err |-> None,
                   value |-> IF mag = TooLarge \/ mag > wide(2, 0) THEN TooLarge ELSE 0 - mag]
        ELSE [err |-> None, value |-> IF fits_int64(mag) THEN mag ELSE TooLarge]

\* the amount import_csv reads from the Price column
csv_amount(price) == int_float(remove_char(strip(remove_char(price, ",")), "\""))

DaysInMonth(y, m) ==
    IF m = 2 THEN (IF y % 4 = 0 /\ (y % 100 # 0 \/ y % 400 = 0) THEN 29 ELSE 28)
    ELSE IF m \in {4, 6, 9, 11} THEN 30 ELSE 31

\* the days from 1970-01-01 to the day d of the month m of the year y
days_from_civil(y, m, d) ==
    LET yy == IF m <= 2 THEN y - 1 ELSE y
        era == yy \div 400
        yoe == yy - era * 400
        doy == (153 * (IF m > 2 THEN m - 3 ELSE m + 9) + 2) \div 5 + d - 1
        doe == yoe * 365 + yoe \div 4 - yoe \div 100 + doy
    IN  era * 146097 + doe - 719468

(* datetime.strptime(s, "%m/%d/%y").strftime("%Y-%m-%d 00:00:00"): the    *)
(* wall-clock second of that midnight, which the rendered string names     *)
(* one to one; a two-digit year below 69 lies in the 2000s.                *)
strptime_mdy(s) ==
    LET p1 == FindChar(s, "/")
        rest == SubSeq(s, p1 + 1, Len(s))
        p2 == FindChar(rest, "/")
        mm == SubSeq(s, 1, p1 - 1)
        dd == SubSeq(rest, 1, p2 - 1)
        yy == SubSeq(rest, p2 + 1, Len(rest))
        wellformed == /\ p1 <= Len(s) /\ p2 <= Len(rest)
                      /\ Len(mm) \in {1, 2} /\ AllDigits(mm)
                      /\ Len(dd) \in {1, 2} /\ AllDigits(dd)
                      /\ Len(yy) = 2 /\ AllDigits(yy)
        y == IF int(yy) < 69 THEN 2000 + int(yy) ELSE 1900 + int(yy)
    IN  IF ~wellformed THEN [err |-> "ValueError", second |-> 0]
        ELSE IF int(mm) \notin 1..12 \/ int(dd) \notin 1..DaysInMonth(y, int(mm))
             THEN [err |-> "ValueError", second |-> 0]
        ELSE [err |-> None, second |-> days_from_civil(y, int(mm), int(dd)) * 86400]

\* import_csv for one row of the reader: err names the exception caught
import_row(db, row) ==
    LET dt == strptime_mdy(row.Date)
        amt == csv_amount(row.Price)
    IN  IF dt.err # None THEN [err |-> dt.err, db |-> db]
        ELSE IF amt.err # None THEN [err |-> amt.err, db |-> db]
        ELSE LET or_none(x) == IF x = "" THEN None ELSE x
                 r == insert_sale(db, dt.second, strip(row.Vendor), strip(row.Item),
                                  strip(row.Customer), amt.value,
                                  or_none(strip(row.Profession)),
                                  or_none(strip(row.Category)))
             IN  [err |-> r.err, db |-> r.db]

\* import_csv: the rows in order, a row that raises is skipped with a warning
RECURSIVE import_csv(_, _, _)
import_csv(db, rows, count) ==
    IF rows = <<>> THEN [db |-> db, count |-> count]
    ELSE LET r == import_row(db, Head(rows))
         IN  import_csv(r.db, Tail(rows), IF r.err = None THEN count + 1 ELSE count)

\* --------------------------------------------------------------- coordinator
\* a purge that also deletes the customers left without a sale
purge_for_reparse_with_customers(db, file_path) ==
    LET sale_ids == {r.sale_id : r \in {x \in db.mail_ingests : x.file_path = file_path}}
        sales1 == {s \in db.sales : s.id \notin sale_ids}
        ingests1 == {r \in db.mail_ingests : r.sale_id \notin (sale_ids \ {NoId})}
        purchase_ids == {r.purchase_id : r \in {x \in ingests1 : x.file_path = file_path}}
        purchases2 == {q \in db.purchases : q.id \notin purchase_ids}
        ingests2 == {r \in ingests1 : r.purchase_id \notin (purchase_ids \ {NoId})}
        ingests3 == {r \in ingests2 : r.file_path # file_path}
        customers1 == {c \in db.customers : \E s \in sales1 : s.customer_id = c.id}
    IN  [db EXCEPT !.customers = customers1, !.sales = sales1, !.purchases = purchases2,
                   !.mail_ingests = ingests3]

\* a purge that takes the purged sales out of the totals of their customers
purge_for_reparse_unapply(db, file_path) ==
    LET sale_ids == {r.sale_id : r \in {x \in db.mail_ingests : x.file_path = file_path}}
        sales1 == {s \in db.sales : s.id \notin sale_ids}
        ingests1 == {r \in db.mail_ingests : r.sale_id \notin (sale_ids \ {NoId})}
        purchase_ids == {r.purchase_id : r \in {x \in ingests1 : x.file_path = file_path}}
        purchases2 == {q \in db.purchases : q.id \notin purchase_ids}
        ingests2 == {r \in ingests1 : r.purchase_id \notin (purchase_ids \ {NoId})}
        ingests3 == {r \in ingests2 : r.file_path # file_path}
        gone == db.sales \ sales1
        total[T \in SUBSET gone] ==
            IF T = {} THEN 0
            ELSE LET x == CHOOSE y \in T : TRUE IN x.amount + total[T \ {x}]
        customers1 ==
            {[c EXCEPT !.total_spent = @ - total[{x \in gone : x.customer_id = c.id}],
                       !.total_purchases =
                           @ - Cardinality({x \in gone : x.customer_id = c.id})]
               : c \in db.customers}
    IN  [db EXCEPT !.customers = customers1, !.sales = sales1, !.purchases = purchases2,
                   !.mail_ingests = ingests3]

\* a purge without the cascade and without the DELETE of the ingest records
purge_for_reparse_rows_only(db, file_path) ==
    LET sale_ids == {r.sale_id : r \in {x \in db.mail_ingests : x.file_path = file_path}}
        sales1 == {s \in db.sales : s.id \notin sale_ids}
        purchase_ids == {r.purchase_id : r \in {x \in db.mail_ingests : x.file_path = file_path}}
        purchases2 == {q \in db.purchases : q.id \notin purchase_ids}
    IN  [db EXCEPT !.sales = sales1, !.purchases = purchases2]

\* a purge whose first DELETE takes the sales of every ingest record
purge_for_reparse_every_sale(db, file_path) ==
    LET sale_ids == {r.sale_id : r \in db.mail_ingests}
        sales1 == {s \in db.sales : s.id \notin sale_ids}
        ingests1 == {r \in db.mail_ingests : r.sale_id \notin (sale_ids \ {NoId})}
        purchase_ids == {r.purchase_id : r \in {x \in ingests1 : x.file_path = file_path}}
        purchases2 == {q \in db.purchases : q.id \notin purchase_ids}
        ingests2 == {r \in ingests1 : r.purchase_id \notin (purchase_ids \ {NoId})}
        ingests3 == {r \in ingests2 : r.file_path # file_path}
    IN  [db EXCEPT !.sales = sales1, !.purchases = purchases2, !.mail_ingests = ingests3]

(* The three DELETEs of the purge and their commit.  Deleting a sale or a   *)
(* purchase deletes the ingest rows that reference it (ON DELETE CASCADE).  *)
purge_for_reparse(db, file_path) ==
    LET sale_ids == {r.sale_id : r \in {x \in db.mail_ingests : x.file_path = file_path}}
        sales1 == {s \in db.sales : s.id \notin sale_ids}
        ingests1 == {r \in db.mail_ingests : r.sale_id \notin (sale_ids \ {NoId})}
        purchase_ids == {r.purchase_id : r \in {x \in ingests1 : x.file_path = file_path}}
        purchases2 == {q \in db.purchases : q.id \notin purchase_ids}
        ingests2 == {r \in ingests1 : r.purchase_id \notin (purchase_ids \ {NoId})}
        ingests3 == {r \in ingests2 : r.file_path # file_path}
    IN  [db EXCEPT !.sales = sales1, !.purchases = purchases2, !.mail_ingests = ingests3]

\* the trimmed item name and the classification the try block computes
classify_entry(entry) ==
    LET item == IF entry.type = "sale" THEN trim_epak(entry.item) ELSE entry.item
        pc2 == classify_vendor_and_item(entry.type, entry.vendor, item)
    IN  [item |-> item, profession |-> pc2[1], category |-> pc2[2]]

(* The body of the try block, given cls = classify_entry(entry): insert    *)
(* the terminal row, then write the ingest record.  Each call commits its  *)
(* own writes; err is the exception that reaches the except clauses.       *)
ingest_entry(db, entry, cls, mail_id, file_path, mtime) ==
    LET ins == IF entry.type = "sale"
               THEN insert_sale(db, entry.sale_date, entry.vendor, cls.item, entry.customer,
                                entry.amount, cls.profession, cls.category)
               ELSE insert_purchase(db, entry.sale_date, cls.item, entry.vendor,
                                    entry.amount, cls.category)
        ups == IF entry.type = "sale"
               THEN upsert_mail_ingest(ins.db, mail_id, file_path, mtime, ins.id, NoId)
               ELSE upsert_mail_ingest(ins.db, mail_id, file_path, mtime, NoId, ins.id)
    IN  IF ins.err # None THEN [err |-> ins.err, db |-> ins.db]
        ELSE [err |-> ups.err, db |-> ups.db]

\* an except clause that counts the artifact as inserted
count_failed_as_inserted(cnt) == [cnt EXCEPT !.inserted = @ + 1]

\* the except clauses: the artifact is counted as failed
count_failed(cnt) == [cnt EXCEPT !.failed = @ + 1]

count_skipped(cnt) == [cnt EXCEPT !.skipped = @ + 1]

count_inserted(cnt) == [cnt EXCEPT !.inserted = @ + 1]

\* a pass that parses an incomplete artifact again without the purge
process_artifact_no_purge(db, cnt, file_path, rd) ==
    LET ident == rd.ident
        already == is_mail_processed(db, ident.mail_id, file_path)
        incomplete == has_incomplete_rows_for_file(db, file_path)
        parsed == rd.parsed
        res == ingest_entry(db, parsed.entry, rd.cls, ident.mail_id, file_path, ident.mtime)
    IN  IF ident.err # None
        THEN [db |-> db, cnt |-> cnt, outcome |-> "raised", err |-> ident.err,
              purged |-> FALSE]
        ELSE IF already /\ ~incomplete
        THEN [db |-> db, cnt |-> count_skipped(cnt), outcome |-> "skipped", err |-> None,
              purged |-> FALSE]
        ELSE IF parsed.err # None
        THEN [db |-> db, cnt |-> cnt, outcome |-> "raised", err |-> parsed.err,
              purged |-> FALSE]
        ELSE IF parsed.entry.type = None
        THEN [db |-> db, cnt |-> count_failed(cnt), outcome |-> "failed", err |-> None,
              purged |-> FALSE]
        ELSE IF res.err # None
        THEN [db |-> res.db, cnt |-> count_failed(cnt), outcome |-> "failed",
              err |-> res.err, purged |-> FALSE]
        ELSE [db |-> res.db, cnt |-> count_inserted(cnt), outcome |-> "inserted",
              err |-> None, purged |-> FALSE]

(* One pass of the loop of main() for the artifact at file_path.  rd is   *)
(* what the pass reads from the file: ident = get_mail_identity(f), parsed *)
(* = parse_mail_file(f), cls = classify_entry(parsed.entry).  outcome is   *)
(* "inserted", "skipped" or "failed", or "raised" when an exception leaves *)
(* the loop (and main); err is the exception met.                          *)
process_artifact(db, cnt, file_path, rd) ==
    LET ident == rd.ident
        already == is_mail_processed(db, ident.mail_id, file_path)
        incomplete == has_incomplete_rows_for_file(db, file_path)
        purged == already /\ incomplete
        db1 == IF purged THEN purge_for_reparse(db, file_path) ELSE db
        parsed == rd.parsed
        res == ingest_entry(db1, parsed.entry, rd.cls, ident.mail_id, file_path, ident.mtime)
    IN  IF ident.err # None
        THEN [db |-> db, cnt |-> cnt, outcome |-> "raised", err |-> ident.err,
              purged |-> FALSE]
        ELSE IF already /\ ~incomplete
        THEN [db |-> db, cnt |-> count_skipped(cnt), outcome |-> "skipped", err |-> None,
              purged |-> FALSE]
        ELSE IF parsed.err # None
        THEN [db |-> db1, cnt |-> cnt, outcome |-> "raised", err |-> parsed.err,
              purged |-> purged]
        ELSE IF parsed.entry.type = None
        THEN [db |-> db1, cnt |-> count_failed(cnt), outcome |-> "failed", err |-> None,
              purged |-> purged]
        ELSE IF res.err # None
        THEN [db |-> res.db, cnt |-> count_failed(cnt), outcome |-> "failed",
              err |-> res.err, purged |-> purged]
        ELSE [db |-> res.db, cnt |-> count_inserted(cnt), outcome |-> "inserted",
              err |-> None, purged |-> purged]

\* ---------------------------------------------------------------- file system
Dir == "inbox"

\* the .mail files under Dir, in the order sorted() gives them
Paths == <<"inbox/a.mail", "inbox/b.mail">>

Missing == "inbox/none"

Targets == {Dir, Missing} \cup {Paths[k] : k \in 1..Len(Paths)}

(* A file system is [posix, kind]: posix tells a POSIX host from a Windows *)
(* one, kind gives each path "file", "dir" or "none" (nothing there).     *)
\* ord(c) for the characters of the paths
Ord(c) ==
    IF c = "-" THEN 45
    ELSE IF c = "." THEN 46
    ELSE IF c = "/" THEN 47
    ELSE IF IsDigit(c) THEN 48 + DigitVal(c)
    ELSE IF \E k \in 1..26 : Upper[k] = c THEN 64 + (CHOOSE k \in 1..26 : Upper[k] = c)
    ELSE IF c = "_" THEN 95
    ELSE 96 + (CHOOSE k \in 1..26 : Lower[k] = c)

\* Python's s < t on two str
RECURSIVE StrLess(_, _)
StrLess(s, t) ==
    IF t = "" THEN FALSE
    ELSE IF s = "" THEN TRUE
    ELSE IF Char(s, 1) # Char(t, 1) THEN Ord(Char(s, 1)) < Ord(Char(t, 1))
    ELSE StrLess(SubSeq(s, 2, Len(s)), SubSeq(t, 2, Len(t)))

\* PurePath.parts of a relative path
RECURSIVE parts(_)
parts(p) ==
    IF ~In("/", p) THEN <<p>>
    ELSE LET i == Min({j \in 1..Len(p) : Char(p, j) = "/"})
         IN  <<SubSeq(p, 1, i - 1)>> \o parts(SubSeq(p, i + 1, Len(p)))

\* PurePath.name
path_name(p) == parts(p)[Len(parts(p))]

\* PurePath.suffix: from the last dot of the name, unless the dot leads or ends it
suffix(p) ==
    LET n == path_name(p)
        dots == {i \in 1..Len(n) : Char(n, i) = "."}
    IN  IF dots = {} THEN ""
        ELSE LET i == CHOOSE d \in dots : \A e \in dots : e <= d
             IN  IF 1 < i /\ i < Len(n) THEN SubSeq(n, i, Len(n)) ELSE ""

\* Python's a < b on two tuples of str
RECURSIVE TupleLess(_, _)
TupleLess(a, b) ==
    IF b = <<>> THEN FALSE
    ELSE IF a = <<>> THEN TRUE
    ELSE IF a[1] # b[1] THEN StrLess(a[1], b[1])
    ELSE TupleLess(Tail(a), Tail(b))

\* PurePath.__lt__: by the parts, folded to lower case on a Windows host
PathLess(fs, p, q) ==
    IF fs.posix THEN TupleLess(parts(p), parts(q))
    ELSE TupleLess(parts(casefold(p)), parts(casefold(q)))

RECURSIVE sorted(_, _)
sorted(fs, S) ==
    IF S = {} THEN <<>>
    ELSE LET m == CHOOSE x \in S : \A y \in S \ {x} : PathLess(fs, x, y)
         IN  <<m>> \o sorted(fs, S \ {m})

is_file(fs, p) == p \in DOMAIN fs.kind /\ fs.kind[p] = "file"

is_dir(fs, p) == p \in DOMAIN fs.kind /\ fs.kind[p] = "dir"

\* the pattern *.mail on a name: the case counts on a POSIX host only
fnmatch_mail(fs, n) ==
    LET m == IF fs.posix THEN n ELSE casefold(n)
    IN  OccursAt(m, ".mail", Len(m) - 4)

\* target.glob("**/*.mail"): the entries below target, files and directories
\* alike, whose name meets the pattern
glob_mail(fs, target) ==
    {p \in DOMAIN fs.kind :
        /\ fs.kind[p] # "none"
        /\ OccursAt(p, target \o "/", 1)
        /\ fnmatch_mail(fs, path_name(p))}

\* iter_mail_paths: [target] for a .mail file, the sorted glob for a directory
iter_mail_paths(fs, target) ==
    IF is_file(fs, target) /\ casefold(suffix(target)) = ".mail" THEN <<target>>
    ELSE IF ~is_dir(fs, target) THEN <<>>
    ELSE sorted(fs, glob_mail(fs, target))

\* the inbox of the runs: the directory Dir that holds the files of Paths
Inbox ==
    [posix |-> TRUE,
     kind |-> [p \in {Dir} \cup {Paths[k] : k \in 1..Len(Paths)} |->
                   IF p = Dir THEN "dir" ELSE "file"]]

\* iter_mail_paths on the targets of the runs
Located == [t \in Targets |-> iter_mail_paths(Inbox, t)]

SaleText(id, vendor, item, customer, amount) ==
    <<id, "src", "Vendor Sale Complete", "TIMESTAMP: 1700000000",
      "Vendor: " \o vendor \o " has sold " \o item \o " to " \o customer
        \o " for " \o amount \o " credits",
      "sold at Shop, on Tatooine">>

PurchaseText(id, item, vendor, amount) ==
    <<id, "src", "Vendor Item Purchased", "TIMESTAMP: 1700000500",
      "You have won the auction of \"" \o item \o "\" from \"" \o vendor
        \o "\" for " \o amount \o " credits.",
      "bought at Bazaar">>

(* The states a file of the inbox takes: a classified sale, a sale no rule *)
(* classifies, that sale with the first line of the first one (and a newer  *)
(* mtime), a classified purchase, a purchase no rule classifies, a mail cut *)
(* short, a file that cannot be opened, a sale whose timestamp lies past    *)
(* the year 9999, a sale whose amount is 2^63, and three more malformed     *)
(* mails: no timestamp, an unknown event label, a body that is no sale;     *)
(* then two sales of very large amounts, 2^63 - 1 and 2^62 + 2.              *)
Catalog ==
    << [readable |-> TRUE, mtime |-> 1,
        text |-> SaleText("778001", "Weapons", "Wookiee Carbine | Epak", "zeta", "25000")],
       [readable |-> TRUE, mtime |-> 1,
        text |-> SaleText("778002", "Junk Dealer", "Old Boot", "zeta", "300")],
       [readable |-> TRUE, mtime |-> 2,
        text |-> SaleText("778001", "Junk Dealer", "Old Boot", "zeta", "300")],
       [readable |-> TRUE, mtime |-> 1,
        text |-> PurchaseText("778003", "Krayt Blood", "Bob", "500")],
       [readable |-> TRUE, mtime |-> 1,
        text |-> PurchaseText("778004", "Old Hat", "Bob", "40")],
       [readable |-> TRUE, mtime |-> 2,
        text |-> <<"778002", "src", "Vendor Sale Complete">>],
       [readable |-> FALSE, mtime |-> 1, text |-> <<>>],
       [readable |-> TRUE, mtime |-> 1,
        text |-> <<"778005", "src", "Vendor Sale Complete", "TIMESTAMP: 999999999999",
                   "Vendor: Weapons has sold Carbine to zeta for 30 credits",
                   "sold at Shop">>],
       [readable |-> TRUE, mtime |-> 1,
        text |-> SaleText("778006", "Weapons", "Carbine", "big", "9223372036854775808")],
       [readable |-> TRUE, mtime |-> 1,
        text |-> <<"778007", "src", "Vendor Sale Complete", "Sent 1700000000",
                   "Vendor: Weapons has sold Carbine to zeta for 30 credits",
                   "sold at Shop">>],
       [readable |-> TRUE, mtime |-> 1,
        text |-> <<"778008", "src", "Auction Outbid", "TIMESTAMP: 1700000000",
                   "Vendor: Weapons has sold Carbine to zeta for 30 credits",
                   "sold at Shop">>],
       [readable |-> TRUE, mtime |-> 1,
        text |-> <<"778009", "src", "Vendor Sale Complete", "TIMESTAMP: 1700000000",
                   "Vendor: Weapons sold a Carbine", "sold at Shop">>],
       [readable |-> TRUE, mtime |-> 1,
        text |-> SaleText("778013", "Junk Dealer", "Old Boot", "zeta",
                          "9223372036854775807")],
       [readable |-> TRUE, mtime |-> 1,
        text |-> SaleText("778014", "Junk Dealer", "Old Boot", "zeta",
                          "4611686018427387906")] >>

\* the malformed mails that only the runs over a malformed inbox meet
MalformedOnly == {10, 11, 12}

\* the sales of very large amounts that only the runs beside an import meet
WideOnly == {13, 14}

FileStates == (1..Len(Catalog)) \ (MalformedOnly \cup WideOnly)

\* the host's offsets from UTC, in seconds
TzOffsets == {0, 3600}

\* the classification of a parse result (nothing to classify without an entry)
classify_parsed(parsed) ==
    IF parsed.entry.type = None THEN [item |-> None, profession |-> None, category |-> None]
    ELSE classify_entry(parsed.entry)

ReadParsed(ident, parsed) ==
    [ident |-> ident, parsed |-> parsed, cls |-> classify_parsed(parsed)]

\* what a pass reads from a file in state c on a host at offset tzo
ReadFile(c, tzo) ==
    ReadParsed(get_mail_identity(Catalog[c]), parse_mail_file(Catalog[c], tzo))

\* ReadFile, computed once for every file state and offset
Reading == [c \in 1..Len(Catalog) |-> [tzo \in TzOffsets |-> ReadFile(c, tzo)]]

\* --------------------------------------------------------------------- bounds
MaxRuns == 2

MaxEdits == 1

MaxCalls == 1

MaxImports == 1

MaxRows == 2

\* ---------------------------------------------------------------------- state
VARIABLES
    files,        \* path -> the state of the file (an index of Catalog)
    host_tz,      \* the host's offset from UTC
    conn,         \* the SQLite database
    pc,           \* "idle", "loop", "done", "nofiles" or "raised"
    arg_path,     \* the path argument of the run
    mail_files,   \* the list iter_mail_paths returned
    idx,          \* the position in mail_files of the next artifact
    tally,        \* [inserted, skipped, failed]
    last,         \* what the latest pass of the loop did
    snap,         \* the database when the run started
    rerun,        \* the run repeats the run before it over unchanged files
    dirty,        \* a file changed since the run started
    runs,         \* runs started
    edits,        \* file changes made
    calls,        \* direct calls of the ledger's functions made
    doc,          \* the file handed to parse_mail_file alone
    event,        \* what parse_mail_file made of doc
    query,        \* the arguments of a function called alone
    answer        \* what the function returned for query

vars == <<files, host_tz, conn, pc, arg_path, mail_files, idx, tally, last, snap, rerun,
          dirty, runs, edits, calls, doc, event, query, answer>>

ZeroCnt == [inserted |-> 0, skipped |-> 0, failed |-> 0]

NoStep == [path |-> None, outcome |-> None, err |-> None, purged |-> FALSE,
           arg |-> <<NoId, NoId>>]

\* no file handed to parse_mail_file alone; parse_mail_file not called yet
NoDoc == [readable |-> FALSE, mtime |-> 0, text |-> <<>>]

Unparsed == [err |-> None, entry |-> [type |-> "unparsed"]]

\* no function called alone; the function not called yet
NoQuery == [fn |-> None]

NoAnswer == <<"<not called>">>

Init ==
    /\ files \in [{Paths[k] : k \in 1..Len(Paths)} -> FileStates]
    /\ host_tz \in TzOffsets
    /\ doc = NoDoc
    /\ event = Unparsed
    /\ query = NoQuery
    /\ answer = NoAnswer
    /\ conn = EmptyDb
    /\ pc = "idle"
    /\ arg_path = None
    /\ mail_files = <<>>
    /\ idx = 1
    /\ tally = ZeroCnt
    /\ last = NoStep
    /\ snap = EmptyDb
    /\ rerun = FALSE
    /\ dirty = FALSE
    /\ runs = 0
    /\ edits = 0
    /\ calls = 0

Running == pc = "loop"

\* main() up to the loop: locate the artifacts and zero the counters
StartRun(t) ==
    /\ ~Running
    /\ runs < MaxRuns
    /\ runs' = runs + 1
    /\ arg_path' = t
    /\ mail_files' = Located[t]
    /\ pc' = IF Located[t] = <<>> THEN "nofiles" ELSE "loop"
    /\ idx' = 1
    /\ tally' = ZeroCnt
    /\ last' = NoStep
    /\ snap' = conn
    /\ rerun' = (pc = "done" /\ arg_path = t /\ ~dirty)
    /\ dirty' = FALSE
    /\ UNCHANGED <<doc, event, query, answer>>
    /\ UNCHANGED <<files, host_tz, conn, edits, calls>>

\* a loop that takes an artifact again while its reparse leaves it incomplete
StepRetry ==
    /\ Running
    /\ idx <= Len(mail_files)
    /\ \E file_path \in {mail_files[idx]} :
       \E r \in {process_artifact(conn, tally, file_path,
                                  Reading[files[file_path]][host_tz])} :
           /\ conn' = r.db
           /\ tally' = r.cnt
           /\ last' = [path |-> file_path, outcome |-> r.outcome, err |-> r.err,
                       purged |-> r.purged, arg |-> <<NoId, NoId>>]
           /\ pc' = IF r.outcome = "raised" THEN "raised" ELSE "loop"
           /\ idx' = IF r.outcome = "raised"
                         \/ (r.purged /\ has_incomplete_rows_for_file(r.db, file_path))
                     THEN idx ELSE idx + 1
    /\ UNCHANGED <<doc, event, query, answer>>
    /\ UNCHANGED <<files, host_tz, arg_path, mail_files, snap, rerun, dirty, runs, edits,
                   calls>>

\* one pass of the loop
Step ==
    /\ Running
    /\ idx <= Len(mail_files)
    /\ \E file_path \in {mail_files[idx]} :
       \E r \in {process_artifact(conn, tally, file_path,
                                  Reading[files[file_path]][host_tz])} :
           /\ conn' = r.db
           /\ tally' = r.cnt
           /\ last' = [path |-> file_path, outcome |-> r.outcome, err |-> r.err,
                       purged |-> r.purged, arg |-> <<NoId, NoId>>]
           /\ pc' = IF r.outcome = "raised" THEN "raised" ELSE "loop"
           /\ idx' = IF r.outcome = "raised" THEN idx ELSE idx + 1
    /\ UNCHANGED <<doc, event, query, answer>>
    /\ UNCHANGED <<files, host_tz, arg_path, mail_files, snap, rerun, dirty, runs, edits,
                   calls>>

\* the loop is over: print the tally
PrintDone ==
    /\ Running
    /\ idx > Len(mail_files)
    /\ pc' = "done"
    /\ UNCHANGED <<doc, event, query, answer>>
    /\ UNCHANGED <<files, host_tz, conn, arg_path, mail_files, idx, tally, last, snap, rerun,
                   dirty, runs, edits, calls>>

\* between two runs a file is rewritten, replaced or made unreadable
EditFile(p, c) ==
    /\ ~Running
    /\ edits < MaxEdits
    /\ files[p] # c
    /\ files' = [files EXCEPT ![p] = c]
    /\ edits' = edits + 1
    /\ dirty' = TRUE
    /\ UNCHANGED <<doc, event, query, answer>>
    /\ UNCHANGED <<host_tz, conn, pc, arg_path, mail_files, idx, tally, last, snap, rerun, runs,
                   calls>>

Next ==
    \/ \E t \in Targets : StartRun(t)
    \/ Step
    \/ PrintDone
    \/ \E p \in DOMAIN files : \E c \in FileStates : EditFile(p, c)

Spec == Init /\ [][Next]_vars

(* The runs over files that do not change (a classified sale, a sale no    *)
(* rule classifies, a mail cut short, a file that cannot be opened), on a  *)
(* host at UTC, under the scheduling of the interpreter: a run that has    *)
(* begun goes on pass after pass, and prints its tally once the loop is    *)
(* over.                                                                   *)
FairFileStates == {1, 2, 6, 7}

InitFair ==
    /\ Init
    /\ host_tz = 0
    /\ \A p \in DOMAIN files : files[p] \in FairFileStates

NextFair ==
    \/ \E t \in Targets : StartRun(t)
    \/ Step
    \/ PrintDone

SpecFair == InitFair /\ [][NextFair]_vars /\ WF_vars(Step) /\ WF_vars(PrintDone)

(* The ledger's functions are also called directly (by a test, by another *)
(* tool on the same database): upsert_mail_ingest with any arguments,      *)
(* between two runs.                                                       *)
RowIds(rows, seq) == {NoId, seq + 1} \cup {r.id : r \in rows}

ApiUpsert(mail_id, file_path, sale_id, purchase_id) ==
    /\ ~Running
    /\ calls < MaxCalls
    /\ calls' = calls + 1
    /\ LET r == upsert_mail_ingest(conn, mail_id, file_path, 3, sale_id, purchase_id)
       IN  /\ conn' = r.db
           /\ last' = [path |-> file_path, outcome |-> "upsert", err |-> r.err,
                       purged |-> FALSE, arg |-> <<sale_id, purchase_id>>]
    /\ dirty' = TRUE
    /\ UNCHANGED <<doc, event, query, answer>>
    /\ UNCHANGED <<files, host_tz, pc, arg_path, mail_files, idx, tally, snap, rerun, runs,
                   edits>>

ApiCall ==
    \E mail_id \in {None, "778001"} : \E file_path \in DOMAIN files :
      \E sale_id \in RowIds(conn.sales, conn.seq.sales) :
        \E purchase_id \in RowIds(conn.purchases, conn.seq.purchases) :
          ApiUpsert(mail_id, file_path, sale_id, purchase_id)

\* the amounts a direct caller passes: none of the parser's \d+ is negative
ApiAmounts == {-5, 40}

\* insert_sale called directly, between two runs
ApiInsertSale(customer, amount) ==
    /\ ~Running
    /\ calls < MaxCalls
    /\ calls' = calls + 1
    /\ LET r == insert_sale(conn, 1700000000, "Weapons", "Carbine", customer, amount,
                            "Weaponsmith", "Carbine")
       IN  /\ conn' = r.db
           /\ last' = [path |-> None, outcome |-> "insert_sale", err |-> r.err,
                       purged |-> FALSE, arg |-> <<amount, NoId>>]
    /\ dirty' = TRUE
    /\ UNCHANGED <<doc, event, query, answer>>
    /\ UNCHANGED <<files, host_tz, pc, arg_path, mail_files, idx, tally, snap, rerun, runs,
                   edits>>

\* insert_purchase called directly, between two runs
ApiInsertPurchase(amount) ==
    /\ ~Running
    /\ calls < MaxCalls
    /\ calls' = calls + 1
    /\ LET r == insert_purchase(conn, 1700000500, "Krayt Blood", "Bob", amount, "Blood")
       IN  /\ conn' = r.db
           /\ last' = [path |-> None, outcome |-> "insert_purchase", err |-> r.err,
                       purged |-> FALSE, arg |-> <<amount, NoId>>]
    /\ dirty' = TRUE
    /\ UNCHANGED <<doc, event, query, answer>>
    /\ UNCHANGED <<files, host_tz, pc, arg_path, mail_files, idx, tally, snap, rerun, runs,
                   edits>>

NextLedger ==
    \/ \E t \in Targets : StartRun(t)
    \/ Step
    \/ PrintDone
    \/ ApiCall
    \/ \E customer \in {"zeta", "neg"} : \E amount \in ApiAmounts :
          ApiInsertSale(customer, amount)
    \/ \E amount \in ApiAmounts : ApiInsertPurchase(amount)

(* The direct calls are explored over an inbox of well-formed sales and    *)
(* purchases, on a host at UTC.                                            *)
LedgerFileStates == {1, 2, 4, 5}

InitLedger ==
    /\ Init
    /\ host_tz = 0
    /\ \A p \in DOMAIN files : files[p] \in LedgerFileStates

SpecLedger == InitLedger /\ [][NextLedger]_vars

\* ---------------------------------------------------- runs over malformed mail
(* The runs over an inbox whose files are a classified sale, a sale no     *)
(* rule classifies, or one of the four kinds of malformed mail.            *)
MalformedFileStates == {1, 2, 6} \cup MalformedOnly

InitMalformed ==
    /\ files \in [{Paths[k] : k \in 1..Len(Paths)} -> MalformedFileStates]
    /\ host_tz \in TzOffsets
    /\ doc = NoDoc
    /\ event = Unparsed
    /\ query = NoQuery
    /\ answer = NoAnswer
    /\ conn = EmptyDb
    /\ pc = "idle"
    /\ arg_path = None
    /\ mail_files = <<>>
    /\ idx = 1
    /\ tally = ZeroCnt
    /\ last = NoStep
    /\ snap = EmptyDb
    /\ rerun = FALSE
    /\ dirty = FALSE
    /\ runs = 0
    /\ edits = 0
    /\ calls = 0

NextMalformed ==
    \/ \E t \in Targets : StartRun(t)
    \/ Step
    \/ PrintDone
    \/ \E p \in DOMAIN files : \E c \in MalformedFileStates : EditFile(p, c)

SpecMalformed == InitMalformed /\ [][NextMalformed]_vars

\* ------------------------------------------------ runs beside the CSV importer
CsvRow(date, customer, price, profession) ==
    [Date |-> date, Vendor |-> "Weapons ", Customer |-> customer, Item |-> " Carbine",
     Price |-> price, Profession |-> profession, Category |-> "Carbine"]

(* The rows a CSV file holds: a plain sale, two sales of very large        *)
(* amounts (one written with thousands separators), a negative price, a    *)
(* price with a fraction and no profession, and a date in another format.  *)
CsvRows ==
    {CsvRow("11/04/26", "zeta", "40", "Weaponsmith"),
     CsvRow("11/04/26", " zeta ", "4,611,686,018,427,388,928", "Weaponsmith"),
     CsvRow("1/5/26", "zeta", "4611686018427387904", "Weaponsmith"),
     CsvRow("11/04/26", "neg", "-5", "Weaponsmith"),
     CsvRow("11/04/26", "bob", " 12.75", ""),
     CsvRow("2026-11-04", "zeta", "40", "Weaponsmith")}

\* the CSV files of up to MaxRows rows
CsvFiles == UNION {[1..n -> CsvRows] : n \in 0..MaxRows}

\* import_sales_csv.py run on a CSV file that exists, between two runs
ImportCsv(rows) ==
    /\ ~Running
    /\ calls < MaxImports
    /\ calls' = calls + 1
    /\ LET r == import_csv(conn, rows, 0)
       IN  /\ conn' = r.db
           /\ last' = [path |-> None, outcome |-> "import_csv", err |-> None,
                       purged |-> FALSE, arg |-> <<r.count, Len(rows)>>]
    /\ dirty' = TRUE
    /\ UNCHANGED <<doc, event, query, answer>>
    /\ UNCHANGED <<files, host_tz, pc, arg_path, mail_files, idx, tally, snap, rerun, runs,
                   edits>>

NextImport ==
    \/ \E t \in Targets : StartRun(t)
    \/ Step
    \/ PrintDone
    \/ \E rows \in CsvFiles : ImportCsv(rows)

(* The imports are explored beside the runs over an inbox of sales to one *)
(* customer, of a small and of very large amounts, on a host at UTC.       *)
ImportFileStates == {2} \cup WideOnly

InitImport ==
    /\ files \in [{Paths[k] : k \in 1..Len(Paths)} -> ImportFileStates]
    /\ host_tz = 0
    /\ doc = NoDoc
    /\ event = Unparsed
    /\ query = NoQuery
    /\ answer = NoAnswer
    /\ conn = EmptyDb
    /\ pc = "idle"
    /\ arg_path = None
    /\ mail_files = <<>>
    /\ idx = 1
    /\ tally = ZeroCnt
    /\ last = NoStep
    /\ snap = EmptyDb
    /\ rerun = FALSE
    /\ dirty = FALSE
    /\ runs = 0
    /\ edits = 0
    /\ calls = 0

SpecImport == InitImport /\ [][NextImport]_vars

\* ------------------------------------------------------ parse_mail_file alone
EventLabels ==
    {"Vendor Sale Complete", "Vendor Item Purchased", "vendor sale complete",
     "Vendor Sale Complete, Vendor Item Purchased", "Auction Outbid"}

StampLines ==
    {"TIMESTAMP: 1700000000", "timestamp:1700000000", "Sent 1700000000",
     "TIMESTAMP: 999999999999"}

BodyLines == {SaleText("1", "Weapons", "Carbine", "zeta", "30")[5],
              PurchaseText("1", "Krayt Blood", "Bob", "500")[5],
              "Nothing was sold"}

\* a mail of the three lines: whole, cut short, with a blank line, ending blank
DocTexts(label, stamp, body) ==
    { <<"778001", "src", label, stamp, body, "at Shop">>,
      <<"778001", "src", label, stamp, body>>,
      <<"778001", "  ", "src", label, stamp, body, "at Shop">>,
      <<"778001", "src", label, stamp, body, "   ">> }

Docs ==
    UNION { { [readable |-> TRUE, mtime |-> 1, text |-> t] : t \in DocTexts(label, stamp, body) }
            : <<label, stamp, body>> \in EventLabels \X StampLines \X BodyLines }

InitParse ==
    /\ files = [p \in {Paths[k] : k \in 1..Len(Paths)} |-> 1]
    /\ host_tz \in TzOffsets
    /\ doc \in Docs
    /\ event = Unparsed
    /\ query = NoQuery
    /\ answer = NoAnswer
    /\ conn = EmptyDb
    /\ pc = "idle"
    /\ arg_path = None
    /\ mail_files = <<>>
    /\ idx = 1
    /\ tally = ZeroCnt
    /\ last = NoStep
    /\ snap = EmptyDb
    /\ rerun = FALSE
    /\ dirty = FALSE
    /\ runs = 0
    /\ edits = 0
    /\ calls = 0

\* parse_mail_file(doc) on the host; an exception that leaves it is in err
ParseDoc ==
    /\ event = Unparsed
    /\ event' = parse_mail_file(doc, host_tz)
    /\ UNCHANGED <<files, host_tz, conn, pc, arg_path, mail_files, idx, tally, last, snap,
                   rerun, dirty, runs, edits, calls, doc, query, answer>>

NextParse == ParseDoc

SpecParse == InitParse /\ [][NextParse]_vars

\* ------------------------------------------------------- functions called alone
\* the coordinator at rest on a host at UTC with an empty ledger
AtRest ==
    /\ files = [p \in {Paths[k] : k \in 1..Len(Paths)} |-> 1]
    /\ host_tz = 0
    /\ doc = NoDoc
    /\ event = Unparsed
    /\ conn = EmptyDb
    /\ pc = "idle"
    /\ arg_path = None
    /\ mail_files = <<>>
    /\ idx = 1
    /\ tally = ZeroCnt
    /\ last = NoStep
    /\ snap = EmptyDb
    /\ rerun = FALSE
    /\ dirty = FALSE
    /\ runs = 0
    /\ edits = 0
    /\ calls = 0

\* ------------------------------------------------ classify_vendor_and_item alone
EntryTypes == {"sale", "purchase", "refund"}

VendorNames ==
    {"Epak Weapons", "WEAPONS and Pets", "Armor and Vehicles", "World Drops by the Chef",
     "World Drops", "Pharmaceuticals", "Epak Resources", "BuffBot", "Junk Dealer", ""}

ItemNames ==
    {"Two-Handed Curved Sword", "Curved Sword", "Launcher Pistol", "DL44 XT Pistol",
     "Carbine Rifle", "Bone Composite Armor", "XJ-6 Personal Shield", "Pet Egg",
     "Small Stimpack Enhance", "Small Stimpack", "Pet Stimpack", "Carbine Schematic",
     "Krayt Blood", "Geonosian Power Cube", "Old Boot", ""}

InitClassify ==
    /\ AtRest
    /\ query \in [fn : {"classify_vendor_and_item"}, entry_type : EntryTypes,
                  vendor : VendorNames, item : ItemNames]
    /\ answer = NoAnswer

\* classify_vendor_and_item(entry_type, vendor, item)
Classify ==
    /\ answer = NoAnswer
    /\ answer' = classify_vendor_and_item(query.entry_type, query.vendor, query.item)
    /\ UNCHANGED <<files, host_tz, conn, pc, arg_path, mail_files, idx, tally, last, snap,
                   rerun, dirty, runs, edits, calls, doc, event, query>>

NextClassify == Classify

SpecClassify == InitClassify /\ [][NextClassify]_vars

\* --------------------------------------------------------- iter_mail_paths alone
(* The trees under Dir: two .mail names (one of them may be a directory),  *)
(* a name with the suffix in upper case, a file of another kind, and a     *)
(* directory that may hold a .mail file.                                   *)
TreeKinds ==
    [ kind \in {"inbox", "inbox/a.mail", "inbox/b.mail", "inbox/C.MAIL", "inbox/notes.txt",
                "inbox/a", "inbox/a/z.mail"} |->
        CASE kind = "inbox" -> {"dir"}
          [] kind = "inbox/b.mail" -> {"file", "dir", "none"}
          [] kind = "inbox/a" -> {"dir", "none"}
          [] OTHER -> {"file", "none"} ]

Trees ==
    { [posix |-> x, kind |-> k] :
        x \in BOOLEAN,
        k \in {f \in [DOMAIN TreeKinds -> {"file", "dir", "none"}] :
                 /\ \A n \in DOMAIN TreeKinds : f[n] \in TreeKinds[n]
                 /\ f["inbox/a/z.mail"] # "none" => f["inbox/a"] = "dir"} }

LocateTargets ==
    {"inbox", "inbox/a.mail", "inbox/b.mail", "inbox/C.MAIL", "inbox/notes.txt", "inbox/a",
     Missing}

InitLocate ==
    /\ AtRest
    /\ query \in [fn : {"iter_mail_paths"}, fs : Trees, target : LocateTargets]
    /\ answer = NoAnswer

\* iter_mail_paths(target) on the file system fs
Locate ==
    /\ answer = NoAnswer
    /\ answer' = iter_mail_paths(query.fs, query.target)
    /\ UNCHANGED <<files, host_tz, conn, pc, arg_path, mail_files, idx, tally, last, snap,
                   rerun, dirty, runs, edits, calls, doc, event, query>>

NextLocate == Locate

SpecLocate == InitLocate /\ [][NextLocate]_vars

\* ------------------------------------------------- get_or_create_customer alone
(* Direct calls of get_or_create_customer and of insert_sale on a ledger   *)
(* that starts empty, for names that differ by case only or altogether.    *)
MaxCustomerCalls == 3

CustomerNames == {"zeta", "Zeta", "bob"}

CustomerAmounts == {40, 25000}

InitCustomers == AtRest /\ query = NoQuery /\ answer = NoAnswer

\* get_or_create_customer(conn, name)
GetOrCreateCustomer(customer) ==
    /\ calls < MaxCustomerCalls
    /\ calls' = calls + 1
    /\ LET r == get_or_create_customer(conn, customer)
       IN  /\ conn' = r.db
           /\ last' = [path |-> customer, outcome |-> "get_or_create_customer",
                       err |-> None, purged |-> FALSE, arg |-> <<r.id, NoId>>]
    /\ UNCHANGED <<files, host_tz, pc, arg_path, mail_files, idx, tally, snap, rerun, dirty,
                   runs, edits, doc, event, query, answer>>

\* insert_sale(conn, ...) for the customer
SaleTo(customer, amount) ==
    /\ calls < MaxCustomerCalls
    /\ calls' = calls + 1
    /\ LET r == insert_sale(conn, 1700000000, "Weapons", "Carbine", customer, amount,
                            "Weaponsmith", "Carbine")
       IN  /\ conn' = r.db
           /\ last' = [path |-> customer, outcome |-> "insert_sale", err |-> r.err,
                       purged |-> FALSE, arg |-> <<amount, NoId>>]
    /\ UNCHANGED <<files, host_tz, pc, arg_path, mail_files, idx, tally, snap, rerun, dirty,
                   runs, edits, doc, event, query, answer>>

NextCustomers ==
    \/ \E customer \in CustomerNames : GetOrCreateCustomer(customer)
    \/ \E customer \in CustomerNames : \E amount \in CustomerAmounts : SaleTo(customer, amount)

SpecCustomers == InitCustomers /\ [][NextCustomers]_vars

\* ----------------------------------------------------------------- properties
\* the stored rows of a ledger (the AUTOINCREMENT counters are not rows)
Rows(d) ==
    [customers |-> d.customers, sales |-> d.sales, purchases |-> d.purchases,
     mail_ingests |-> d.mail_ingests]

\* the natural id the artifact at p carries now
FirstLine(p) == Reading[files[p]][host_tz].ident.mail_id

\* the classification the classifier yields now for the artifact at p
ClassNow(p) == Reading[files[p]][host_tz].cls

\* an ingest record of ledger d for path p links a row with a null classification
LinksIncomplete(d, p) ==
    \E r \in d.mail_ingests :
        /\ r.file_path = p
        /\ \/ \E s \in d.sales :
                s.id = r.sale_id /\ (s.profession = None \/ s.category = None)
           \/ \E q \in d.purchases : q.id = r.purchase_id /\ q.category = None

\* ledger d holds an ingest record for the path p or for the artifact's natural id
Recorded(d, p) ==
    \E r \in d.mail_ingests :
        r.file_path = p \/ (FirstLine(p) # None /\ r.mail_id = FirstLine(p))

\* in ledger d every located artifact is recorded and none is incomplete
Settled(d) ==
    \A k \in 1..Len(mail_files) :
        Recorded(d, mail_files[k]) /\ ~LinksIncomplete(d, mail_files[k])

\* a run over the artifacts of the run before it, unchanged, has printed its tally
SecondRunDone == rerun /\ pc = "done" /\ ~dirty

SecondRunIdle ==
    /\ Rows(conn) = Rows(snap)
    /\ tally.inserted = 0
    /\ tally.skipped = Len(mail_files)

C2_BothOrNeither ==
    /\ \A s \in conn.sales : \E r \in conn.mail_ingests : r.sale_id = s.id
    /\ \A q \in conn.purchases : \E r \in conn.mail_ingests : r.purchase_id = q.id
    /\ \A r \in conn.mail_ingests :
          /\ r.sale_id # NoId => \E s \in conn.sales : s.id = r.sale_id
          /\ r.purchase_id # NoId => \E q \in conn.purchases : q.id = r.purchase_id

(* C3: every ingest record has exactly one of sale_id and purchase_id      *)
(* non-null, whatever passes, purges and direct upserts have happened.     *)
C3_ExactlyOneLink ==
    \A r \in conn.mail_ingests : (r.sale_id = NoId) # (r.purchase_id = NoId)

\* a direct upsert for a path whose record links the other kind was rejected
C3_Witness ==
    /\ last.outcome = "upsert"
    /\ last.err = "IntegrityError"
    /\ \E r \in conn.mail_ingests :
          /\ r.file_path = last.path
          /\ \/ /\ r.sale_id # NoId
                /\ \E q \in conn.purchases : q.id = last.arg[2]
             \/ /\ r.purchase_id # NoId
                /\ \E s \in conn.sales : s.id = last.arg[1]

RECURSIVE SumAmount(_)
SumAmount(S) ==
    IF S = {} THEN 0
    ELSE LET s == CHOOSE x \in S : TRUE IN s.amount + SumAmount(S \ {s})

SalesOf(c) == {s \in conn.sales : s.customer_id = c.id}

(* C4: every customer's total_spent is the sum of the amounts of the sales *)
(* stored for it and total_purchases their number.                         *)
C4_AggregatesMatch ==
    \A c \in conn.customers :
        /\ c.total_spent = SumAmount(SalesOf(c))
        /\ c.total_purchases = Cardinality(SalesOf(c))

\* a pass over the artifact at p runs to its end (no exception leaves the loop)
PassOver(p) ==
    /\ pc = "loop"
    /\ idx <= Len(mail_files)
    /\ p = mail_files[idx]
    /\ idx' = idx + 1

\* the ingest records for p and the rows they link are gone after the step
OldRowsGone(p) ==
    \A r \in {x \in conn.mail_ingests : x.file_path = p} :
        /\ \A x \in conn'.mail_ingests : x.id # r.id
        /\ r.sale_id # NoId => \A x \in conn'.sales : x.id # r.sale_id
        /\ r.purchase_id # NoId => \A x \in conn'.purchases : x.id # r.purchase_id

(* after the step exactly one ingest record exists for p, and the row it  *)
(* links carries the classification the classifier yields now              *)
OneRecordClassifiedNow(p) ==
    LET now == {x \in conn'.mail_ingests : x.file_path = p}
    IN  /\ Cardinality(now) = 1
        /\ \A r \in now :
              \/ \E x \in conn'.sales :
                    /\ x.id = r.sale_id
                    /\ x.profession = ClassNow(p).profession
                    /\ x.category = ClassNow(p).category
              \/ \E x \in conn'.purchases :
                    x.id = r.purchase_id /\ x.category = ClassNow(p).category

NoRecordLeft(p) == \A x \in conn'.mail_ingests : x.file_path # p

C6_UnreadableCountsFailed ==
    last.err = "OSError" => (last.outcome = "failed" /\ pc \in {"loop", "done"})

(* C7: a pass whose terminal-row or ingest-record insert violates a        *)
(* uniqueness or check constraint adds one to failed, nothing to inserted  *)
(* or skipped, and the run continues with the next artifact.               *)
C7_ConstraintCountsFailed ==
    [][(pc = "loop" /\ last' # last /\ last'.err = "IntegrityError")
          => /\ tally' = [tally EXCEPT !.failed = @ + 1]
             /\ pc' = "loop"
             /\ idx' = idx + 1]_vars

C7_Witness == last.err = "IntegrityError" /\ last.outcome = "failed" /\ pc = "done"

(* C8: when a run ends, inserted + skipped + failed is the number of       *)
(* artifacts the locator yielded.                                          *)
C8_TallyTotal ==
    pc \in {"done", "raised"}
        => tally.inserted + tally.skipped + tally.failed = Len(mail_files)

(* C9: no two ingest records share a file_path, whatever runs, purges,     *)
(* reparses and direct upserts have happened.                              *)
C9_UniquePath ==
    \A r1, r2 \in conn.mail_ingests : r1.file_path = r2.file_path => r1 = r2

\* a direct upsert met a path that already had a record, and updated it
C9_Witness ==
    /\ last.outcome = "upsert"
    /\ last.err = None
    /\ \E r \in conn.mail_ingests :
          r.file_path = last.path /\ r.file_mtime = 3 /\ r.id < conn.seq.mail_ingests

(* C10: no two ingest records share a non-null mail_id, also after an      *)
(* artifact was copied to a new path or had its first line changed.        *)
C10_UniqueMailId ==
    \A r1, r2 \in conn.mail_ingests :
        (r1.mail_id # None /\ r1.mail_id = r2.mail_id) => r1 = r2

\* a reparse met an artifact whose first line is now another record's mail_id
C10_Witness ==
    /\ pc \in {"loop", "done"}
    /\ last.purged
    /\ last.err = "IntegrityError"
    /\ \E r \in conn.mail_ingests :
          r.mail_id = FirstLine(last.path) /\ r.file_path # last.path

\* the loop's pass over the artifact at p is taken (to its end or to an exception)
PassAt(p) ==
    /\ pc = "loop"
    /\ idx <= Len(mail_files)
    /\ p = mail_files[idx]
    /\ last' # last

\* the row the ingest record r links in ledger d has no null classification
RowComplete(d, r) ==
    \/ \E s \in d.sales : s.id = r.sale_id /\ s.profession # None /\ s.category # None
    \/ \E q \in d.purchases : q.id = r.purchase_id /\ q.category # None

(* ledger d has no record for the path p, and a record with a complete    *)
(* row carries the natural id of the artifact at p                         *)
MatchedByIdOnly(d, p) ==
    /\ FirstLine(p) # None
    /\ \A r \in d.mail_ingests : r.file_path # p
    /\ \E r \in d.mail_ingests : r.mail_id = FirstLine(p) /\ RowComplete(d, r)

RowIncomplete(d, r) ==
    \/ \E s \in d.sales : s.id = r.sale_id /\ (s.profession = None \/ s.category = None)
    \/ \E q \in d.purchases : q.id = r.purchase_id /\ q.category = None

(* the artifact at p can be read, and a record of ledger d that matches    *)
(* its natural id or its path links a row with a null classification       *)
ProcessedIncomplete(d, p) ==
    /\ Reading[files[p]][host_tz].ident.err = None
    /\ \E r \in d.mail_ingests :
          /\ r.file_path = p \/ (FirstLine(p) # None /\ r.mail_id = FirstLine(p))
          /\ RowIncomplete(d, r)

(* C12: a processed artifact (matched by natural id or by path) whose      *)
(* linked row has a null profession or category is purged and reparsed by  *)
(* the pass, not skipped.                                                  *)
C12_ReparseIncomplete ==
    [][\A p \in DOMAIN files :
         (PassAt(p) /\ ProcessedIncomplete(conn, p))
            => (last'.purged /\ last'.outcome # "skipped")]_vars

(* C13: an artifact that is already processed (a record matches its        *)
(* natural id or its path) and not incomplete is counted as skipped, and   *)
(* the pass leaves every table as it was, whatever the file holds now.     *)
C13_SkipFrame ==
    [][\A p \in DOMAIN files :
         (PassAt(p) /\ Recorded(conn, p) /\ ~LinksIncomplete(conn, p))
            => /\ last'.outcome = "skipped"
               /\ Rows(conn') = Rows(conn)]_vars

\* the call of upsert_mail_ingest is made with both links or with neither
UpsertBothOrNeither ==
    /\ calls' = calls + 1
    /\ last'.outcome = "upsert"
    /\ (last'.arg[1] = NoId) = (last'.arg[2] = NoId)

(* C14: upsert_mail_ingest called with both sale_id and purchase_id, or    *)
(* with neither, raises ValueError and the ledger is as before the call.   *)
C14_UpsertRejectsBothOrNeither ==
    [][UpsertBothOrNeither => (last'.err = "ValueError" /\ conn' = conn)]_vars

\* an upsert with an existing sale and an existing purchase, for a recorded path
C14_Witness ==
    /\ last.outcome = "upsert"
    /\ last.err = "ValueError"
    /\ \E x \in conn.sales : x.id = last.arg[1]
    /\ \E x \in conn.purchases : x.id = last.arg[2]
    /\ \E r \in conn.mail_ingests : r.file_path = last.path

(* C15: an insert of a sale or a purchase with a negative amount is        *)
(* rejected, and every stored sale amount, purchase amount and customer    *)
(* total_spent is at least 0.                                              *)
C15_NoNegativeAmount ==
    /\ \A x \in conn.sales : x.amount >= 0
    /\ \A x \in conn.purchases : x.amount >= 0
    /\ \A c \in conn.customers : c.total_spent >= 0
    /\ (last.outcome \in {"insert_sale", "insert_purchase"} /\ last.arg[1] < 0)
          => last.err = "IntegrityError"

\* a sale with a negative amount was offered for a customer who has sales
C15_Witness ==
    /\ last.outcome = "insert_sale"
    /\ last.arg[1] < 0
    /\ last.err = "IntegrityError"
    /\ \E c \in conn.customers : c.total_spent > 0

(* C16: no step deletes a customer row or lowers a customer's total_spent  *)
(* or total_purchases.                                                     *)
C16_CustomersMonotone ==
    [][\A c \in conn.customers :
         \E d \in conn'.customers :
            /\ d.id = c.id
            /\ d.name = c.name
            /\ d.total_spent >= c.total_spent
            /\ d.total_purchases >= c.total_purchases]_vars

\* a purge took a customer's only sale away and the customer row stayed
C16_Witness ==
    /\ last.purged
    /\ last.outcome = "failed"
    /\ conn.sales = {}
    /\ \E c \in conn.customers : c.total_purchases > 0

\* what a body line that is to be a sale makes of a mail
SaleShape(sm) ==
    IF sm.matched
    THEN [kind |-> "sale", customer |-> sm.customer, amount |-> PyInt(sm.amount)]
    ELSE [kind |-> "malformed"]

PurchaseShape(pm) ==
    IF pm.matched THEN [kind |-> "purchase"] ELSE [kind |-> "malformed"]

(* The kind of a file, read off its lines: "unreadable", "malformed" (fewer*)
(* than 6 non-empty lines, no TIMESTAMP field in the 4th, no known event   *)
(* label in the 3rd, or a 5th line that does not match the label's         *)
(* pattern), "sale" (with customer and amount) or "purchase".              *)
LinesShape(L) ==
    IF Len(L) < 6 THEN [kind |-> "malformed"]
    ELSE IF TS_RE_search(L[4]) = None THEN [kind |-> "malformed"]
    ELSE IF In("Vendor Sale Complete", L[3]) THEN SaleShape(SALE_RE_search(L[5]))
    ELSE IF In("Vendor Item Purchased", L[3]) THEN PurchaseShape(PURCHASE_RE_search(L[5]))
    ELSE [kind |-> "malformed"]

FileShape(f) ==
    IF ~f.readable THEN [kind |-> "unreadable"] ELSE LinesShape(read_nonempty_lines(f))

Shape == [c \in 1..Len(Catalog) |-> FileShape(Catalog[c])]

(* the artifact at p is a well-formed sale, no record of ledger d matches  *)
(* its natural id or its path, and d has no customer of its name           *)
NewSaleAt(d, p) ==
    /\ Shape[files[p]].kind = "sale"
    /\ ~Recorded(d, p)
    /\ \A c \in d.customers : c.name # Shape[files[p]].customer

(* the step adds one customer c, one sale x of c and one ingest record for *)
(* p that links x, and nothing else                                        *)
AddsSaleOf(p, c, x, r) ==
    /\ c \notin conn.customers /\ conn'.customers = conn.customers \cup {c}
    /\ c.name = Shape[files[p]].customer
    /\ c.total_spent = Shape[files[p]].amount
    /\ c.total_purchases = 1
    /\ x \notin conn.sales /\ conn'.sales = conn.sales \cup {x}
    /\ x.customer_id = c.id
    /\ x.amount = Shape[files[p]].amount
    /\ r \notin conn.mail_ingests /\ conn'.mail_ingests = conn.mail_ingests \cup {r}
    /\ r.sale_id = x.id
    /\ r.purchase_id = NoId
    /\ r.file_path = p
    /\ r.mail_id = FirstLine(p)
    /\ conn'.purchases = conn.purchases

(* C17: the pass over a new, well-formed sale artifact whose customer is   *)
(* not in the ledger counts it as inserted and adds exactly one customer   *)
(* (total_spent = the amount, total_purchases = 1), one sale and one       *)
(* ingest record linking that sale, with the artifact's path and mail_id.  *)
C17_NewSaleInserted ==
    [][\A p \in DOMAIN files :
         (PassAt(p) /\ NewSaleAt(conn, p))
            => /\ last'.outcome = "inserted"
               /\ tally' = [tally EXCEPT !.inserted = @ + 1]
               /\ \E c \in conn'.customers : \E x \in conn'.sales :
                     \E r \in conn'.mail_ingests : AddsSaleOf(p, c, x, r)]_vars

\* the step adds no row to any table
NothingInserted ==
    /\ conn'.customers \subseteq conn.customers
    /\ conn'.sales \subseteq conn.sales
    /\ conn'.purchases \subseteq conn.purchases
    /\ conn'.mail_ingests \subseteq conn.mail_ingests

\* the pass counts the artifact as failed and the run goes on to the next one
CountedFailed ==
    /\ last'.outcome = "failed"
    /\ tally' = [tally EXCEPT !.failed = @ + 1]
    /\ pc' = "loop"
    /\ idx' = idx + 1

MalformedAt(p) == Shape[files[p]].kind = "malformed"

SaleConditions(L) ==
    /\ Len(L) >= 6
    /\ TS_RE_search(L[4]) # None
    /\ In("Vendor Sale Complete", L[3])
    /\ SALE_RE_search(L[5]).matched

PurchaseConditions(L) ==
    /\ Len(L) >= 6
    /\ TS_RE_search(L[4]) # None
    /\ In("Vendor Item Purchased", L[3])
    /\ PURCHASE_RE_search(L[5]).matched

EventExactlyWhen(L) ==
    /\ event.err = None
    /\ event.entry.type # None <=> (SaleConditions(L) \/ PurchaseConditions(L))
    /\ SaleConditions(L) => event.entry.type = "sale"
    /\ (PurchaseConditions(L) /\ ~SaleConditions(L)) => event.entry.type = "purchase"

(* C19: parse_mail_file returns an event exactly when the file has at      *)
(* least 6 non-empty lines, the 4th carries a TIMESTAMP field, and either  *)
(* the 3rd contains the sale label and the 5th matches the sale pattern    *)
(* (kind sale) or the 3rd contains the purchase label and the 5th matches  *)
(* the purchase pattern (kind purchase); otherwise it returns no event.    *)
C19_EventExactlyWhen ==
    event # Unparsed => EventExactlyWhen(read_nonempty_lines(doc))

(* C20: the sale_date of a parsed event is the UTC rendering of the mail's *)
(* timestamp: parsing the same file on a host at any other offset gives    *)
(* the same sale_date.                                                     *)
C20_SaleDateUTC ==
    event.entry.type \in {"sale", "purchase"}
        => \A tzo \in TzOffsets :
              parse_mail_file(doc, tzo).entry.sale_date = event.entry.sale_date

\* the function called alone has returned
Called == answer # NoAnswer

VendorFragments ==
    {"armor and vehicles", "buffbot", "chef", "pets", "pharmaceuticals", "resources",
     "weapons", "world drops"}

PurchaseFragments == {"geonosian power cube", "blood", "aurilian plant", "cpu>"}

\* the name, whatever its case, contains none of the fragments
NoFragment(ws, name) == \A w \in ws : ~In(w, casefold(name))

(* C21: the classifier returns (none, none) for a sale whose vendor name   *)
(* contains no known vendor fragment and for an event that is neither a    *)
(* sale nor a purchase; for a purchase the profession is none, and the     *)
(* category too when the item name contains no known purchase fragment.    *)
C21_NoRuleNoClass ==
    Called /\ query.fn = "classify_vendor_and_item" =>
        /\ query.entry_type = "sale" /\ NoFragment(VendorFragments, query.vendor)
               => answer = <<None, None>>
        /\ query.entry_type = "purchase"
               => /\ answer[1] = None
                  /\ NoFragment(PurchaseFragments, query.item) => answer[2] = None
        /\ query.entry_type \notin {"sale", "purchase"} => answer = <<None, None>>

\* a sale of a carbine by a vendor no rule names got no classification
C21_Witness ==
    /\ Called
    /\ query = [fn |-> "classify_vendor_and_item", entry_type |-> "sale",
                vendor |-> "Junk Dealer", item |-> "Carbine Rifle"]
    /\ answer = <<None, None>>

\* a rule of the table: any of the fragments gives the category
Rule(ws, category) == [frags |-> ws, category |-> category, else |-> FALSE]

\* the last rule of a group that gives a category to every item
Else(category) == [frags |-> {}, category |-> category, else |-> TRUE]

\* the vendor fragments in the order of the table
VendorTable ==
    <<"armor and vehicles", "buffbot", "chef", "pets", "pharmaceuticals", "resources",
      "weapons", "world drops">>

\* the item rules of each vendor group in the order of the table
ItemTable ==
    <<  \* armor and vehicles
        << Rule({"ab-1", "eta-1", "flare s swoop", "xj-6", "basilisk war droid"}, "Vehicle"),
           Rule({"bone"}, "Bone Armor"), Rule({"composite"}, "Composite"),
           Rule({"psg", "personal shield"}, "PSG"), Rule({"r.i.s."}, "RIS"),
           Rule({"tantel"}, "Tantel") >>,
        \* buffbot
        << Else("Buff") >>,
        \* chef
        << Else("Chef") >>,
        \* pets
        << Rule({"egg"}, "Incubation"), Else("Pet") >>,
        \* pharmaceuticals
        << Rule({"active", "coagulant", "fear release", "scent", "tensile"}, "BE Tissue"),
           Rule({"buff", "enhance"}, "Buff Packs"), Rule({"small stimpack"}, "Stimpack"),
           Rule({"hssiss"}, "Dart"), Rule({"pet stimpack", "vitality"}, "Stimpack") >>,
        \* resources
        << Else("Resources") >>,
        \* weapons
        << Rule({"carbine"}, "Carbine"), Rule({"two-handed curved sword"}, "Two Hand"),
           Rule({"curved sword"}, "One Hand"), Rule({"rifle"}, "Rifle"),
           Rule({"vibro knuckler"}, "Unarmed"),
           Rule({"flame thrower", "flamethrower", "launcher pistol"}, "Commando"),
           Rule({"pistol", "dl44 xt"}, "Pistol"),
           Rule({"long vibro axe", "nightsister energy lance"}, "Polearm") >>,
        \* world drops
        << Rule({"[ca]", "[aa]"}, "Tapes"), Rule({"crystal", "pearl"}, "Crystal"),
           Rule({"geonosian power", "venom"}, "Component"), Rule({"holocron"}, "Misc"),
           Rule({"nightsister clothing"}, "Schematic"), Rule({"schematic"}, "Schematics"),
           Rule({"treasure map"}, "Treasure Map"), Rule({"carbine"}, "Carbine"),
           Rule({"two-handed curved sword"}, "Two Hand"), Rule({"curved sword"}, "One Hand"),
           Rule({"rifle"}, "Rifle"), Rule({"pistol", "dl44 xt"}, "Pistol"),
           Rule({"long vibro axe", "nightsister energy lance"}, "Polearm") >> >>

\* the positions of the vendor fragments the name contains
VendorMatches(vendor) ==
    {g \in 1..Len(VendorTable) : \E k \in 1..(Len(vendor) + 1) :
        OccursAt(casefold(vendor), VendorTable[g], k)}

\* the positions of the rules of group g that the item name meets
ItemMatches(g, item) ==
    {k \in 1..Len(ItemTable[g]) :
        \/ ItemTable[g][k].else
        \/ \E w \in ItemTable[g][k].frags : \E j \in 1..(Len(item) + 1) :
               OccursAt(casefold(item), w, j)}

\* the category of the first rule met in the group of the first vendor fragment met
FirstMatchCategory(vendor, item) ==
    IF VendorMatches(vendor) = {} THEN None
    ELSE LET g == Min(VendorMatches(vendor))
         IN  IF ItemMatches(g, item) = {} THEN None
             ELSE ItemTable[g][Min(ItemMatches(g, item))].category

(* C22: for a sale the category is that of the first item rule, in table   *)
(* order, whose fragment the item name contains, within the group of the   *)
(* first vendor fragment, in table order, that the vendor name contains;   *)
(* both names are matched whatever their case.                             *)
C22_FirstMatchWins ==
    Called /\ query.fn = "classify_vendor_and_item" /\ query.entry_type = "sale" =>
        answer[2] = FirstMatchCategory(query.vendor, query.item)

\* under a weapons vendor the two-handed curved sword came out as Two Hand
C22_Witness ==
    /\ Called
    /\ query = [fn |-> "classify_vendor_and_item", entry_type |-> "sale",
                vendor |-> "Epak Weapons", item |-> "Two-Handed Curved Sword"]
    /\ answer[2] = "Two Hand"

\* a file whose name ends in .mail, whatever the case of the suffix
MatchingArtifact(fs, p) ==
    /\ p \in DOMAIN fs.kind
    /\ fs.kind[p] = "file"
    /\ \E n \in 1..Len(p) : n = Len(p) - 4 /\ casefold(SubSeq(p, n, Len(p))) = ".mail"

\* p lies below the directory t
Below(t, p) == Len(p) > Len(t) + 1 /\ SubSeq(p, 1, Len(t) + 1) = t \o "/"

(* C23: the locator returns the one-element list of a path that names a    *)
(* matching artifact, the matching artifacts below a directory as a list   *)
(* in ascending path order without duplicates, and the empty list for any  *)
(* other path; every path it returns is a matching (.mail) artifact.       *)
C23_Locator ==
    Called /\ query.fn = "iter_mail_paths" =>
        LET fs == query.fs
            t == query.target
        IN  /\ MatchingArtifact(fs, t) => answer = <<t>>
            /\ t \in DOMAIN fs.kind /\ fs.kind[t] = "dir" =>
                   /\ {answer[k] : k \in 1..Len(answer)}
                          = {p \in DOMAIN fs.kind : Below(t, p) /\ MatchingArtifact(fs, p)}
                   /\ \A j, k \in 1..Len(answer) : j < k => PathLess(fs, answer[j], answer[k])
            /\ ~MatchingArtifact(fs, t) /\ ~(t \in DOMAIN fs.kind /\ fs.kind[t] = "dir")
                   => answer = <<>>
            /\ \A k \in 1..Len(answer) : MatchingArtifact(fs, answer[k])

(* C24: a pass that purges the artifact at p removes the ingest records    *)
(* for the path p and the terminal rows they link, and removes nothing     *)
(* else: every other ingest record, sale and purchase is still stored,     *)
(* unchanged, after the pass.                                              *)
C24_PurgeFrame ==
    [][\A p \in DOMAIN files :
         PassAt(p) /\ last'.purged =>
            LET mine == {x \in conn.mail_ingests : x.file_path = p}
            IN  /\ mine # {}
                /\ \A r \in mine :
                      /\ \A x \in conn'.mail_ingests : x.id # r.id
                      /\ \A x \in conn'.sales : x.id # r.sale_id
                      /\ \A x \in conn'.purchases : x.id # r.purchase_id
                /\ \A r \in conn.mail_ingests \ mine : r \in conn'.mail_ingests
                /\ \A x \in conn.sales :
                      (\A r \in mine : r.sale_id # x.id) => x \in conn'.sales
                /\ \A x \in conn.purchases :
                      (\A r \in mine : r.purchase_id # x.id) => x \in conn'.purchases]_vars

\* a pass purged its artifact and the record and the sale of another one are stored
C24_Witness ==
    /\ last.purged
    /\ \E r \in conn.mail_ingests :
          /\ r.file_path # last.path
          /\ \E x \in conn.sales : x.id = r.sale_id

(* C25: a call of the customer lookup-or-create with a name returns the id *)
(* of the customer of exactly that name when one is stored, and the same   *)
(* id at every later call; after the call exactly one customer has the     *)
(* name; every customer stored before the call is stored unchanged after   *)
(* it, and no sale is added.                                               *)
C25_LookupOrCreate ==
    [][calls' = calls + 1 /\ last'.outcome = "get_or_create_customer" =>
         LET n == last'.path
             id == last'.arg[1]
         IN  /\ Cardinality({c \in conn'.customers : c.name = n}) = 1
             /\ \E c \in conn'.customers : c.name = n /\ c.id = id
             /\ \A c \in conn.customers : c \in conn'.customers
             /\ \A c \in conn.customers : c.name = n => c.id = id /\ conn' = conn
             /\ \A c \in conn'.customers \ conn.customers : c.name = n
             /\ conn'.sales = conn.sales]_vars

\* a second lookup of a customer who has bought returned the id and kept the total
C25_Witness ==
    /\ calls >= 3
    /\ last.outcome = "get_or_create_customer"
    /\ Cardinality(conn.customers) >= 2
    /\ \E c \in conn.customers :
          c.name = last.path /\ c.id = last.arg[1] /\ c.total_spent > 0

(* C26: a run that has begun ends (it prints its tally or an exception     *)
(* leaves it), because every pass of the loop moves on to the next         *)
(* position of a finite list, even when the reparse of the artifact left   *)
(* it incomplete; the list names no artifact twice, and one pass inserts   *)
(* at most one terminal row and one ingest record, so within a run each    *)
(* artifact is purged, parsed and inserted at most once.                   *)
C26_RunTerminates ==
    /\ [](/\ \A j, k \in 1..Len(mail_files) : mail_files[j] = mail_files[k] => j = k
          /\ Running => idx <= Len(mail_files) + 1)
    /\ [][Running /\ pc' # "done" =>
            /\ idx <= Len(mail_files)
            /\ mail_files' = mail_files
            /\ pc' = "raised" \/ idx' = idx + 1
            /\ conn'.seq.sales + conn'.seq.purchases
                   <= conn.seq.sales + conn.seq.purchases + 1
            /\ conn'.seq.mail_ingests <= conn.seq.mail_ingests + 1]_vars
    /\ (Running ~> ~Running)

\* a run ended after the reparse of its last artifact left it incomplete
C26_Witness ==
    /\ pc = "done"
    /\ Len(mail_files) = 2
    /\ last.purged
    /\ last.outcome = "inserted"
    /\ LinksIncomplete(conn, last.path)

(* C27: a pass that purges the artifact at p, now a well-formed sale, and  *)
(* stores its sale again leaves every other customer unchanged and adds    *)
(* the amount of the sale to the total_spent its customer had before the   *)
(* pass, and one to its total_purchases: nothing of the purged sale is     *)
(* taken back.  A pass that purges and then finds no event to store leaves *)
(* the customers table unchanged.                                          *)
C27_ReparseAddsAgain ==
    [][\A p \in DOMAIN files :
         PassAt(p) /\ last'.purged =>
            /\ (Shape[files[p]].kind = "sale" /\ conn'.seq.sales = conn.seq.sales + 1) =>
                  LET n == Shape[files[p]].customer
                      a == Shape[files[p]].amount
                      known == {c \in conn.customers : c.name = n}
                  IN  /\ \A c \in conn.customers \ known : c \in conn'.customers
                      /\ \A c \in known :
                            \E d \in conn'.customers :
                               /\ d.id = c.id
                               /\ d.total_spent = exact_add(c.total_spent, a)
                               /\ d.total_purchases = c.total_purchases + 1
                      /\ known = {} =>
                            \E d \in conn'.customers \ conn.customers :
                               d.name = n /\ d.total_spent = a /\ d.total_purchases = 1
                      /\ Cardinality(conn'.customers)
                             = Cardinality(conn.customers) + (IF known = {} THEN 1 ELSE 0)
            /\ (last'.outcome = "failed" /\ last'.err = None) =>
                  conn'.customers = conn.customers]_vars

\* a purged sale was stored again: its customer counts two purchases for one sale
C27_Witness ==
    /\ last.purged
    /\ last.outcome = "inserted"
    /\ \E c \in conn.customers :
          /\ c.total_purchases = 2
          /\ Cardinality({x \in conn.sales : x.customer_id = c.id}) = 1
          /\ \E x \in conn.sales : x.customer_id = c.id /\ c.total_spent = 2 * x.amount

(* C28: a pass whose outcome is failed leaves every table of the ledger as *)
(* it was before the pass: the rows stored for its artifact are still      *)
(* stored and no customer, sale, purchase or ingest row is added.          *)
C28_FailedLeavesLedger ==
    [][\A p \in DOMAIN files :
         PassAt(p) /\ last'.outcome = "failed" => Rows(conn') = Rows(conn)]_vars

(* the artifact at p can be read, parses to a sale or a purchase, and the  *)
(* classifier gives it a category and, for a sale, a profession            *)
ParsedAndClassified(p) ==
    LET rd == Reading[files[p]][host_tz]
    IN  /\ rd.ident.err = None
        /\ rd.parsed.err = None
        /\ rd.parsed.entry.type \in {"sale", "purchase"}
        /\ rd.cls.category # None
        /\ rd.parsed.entry.type = "sale" => rd.cls.profession # None

(* C29: when every located artifact parses and is classified without a     *)
(* null, a second run over the same, unchanged artifacts skips each of     *)
(* them, counts nothing inserted or failed, and leaves the rows of every   *)
(* table as the first run left them.                                       *)
C29_ClassifiedRunTwice ==
    (SecondRunDone /\ \A k \in 1..Len(mail_files) : ParsedAndClassified(mail_files[k]))
        => /\ tally = [inserted |-> 0, skipped |-> Len(mail_files), failed |-> 0]
           /\ Rows(conn) = Rows(snap)

(* the artifact at p can be read and parses to a sale or a purchase that   *)
(* the classifier leaves without a category or, for a sale, a profession   *)
ParsedUnclassified(p) ==
    LET rd == Reading[files[p]][host_tz]
    IN  /\ rd.ident.err = None
        /\ rd.parsed.err = None
        /\ rd.parsed.entry.type \in {"sale", "purchase"}
        /\ \/ rd.cls.category = None
           \/ rd.parsed.entry.type = "sale" /\ rd.cls.profession = None

(* C30: while no file changes, every pass over an artifact that parses but *)
(* is left without profession or category, and whose natural id is not     *)
(* that of a complete record of another path, is reported as inserted and  *)
(* never as skipped: the rows stored for its path are purged, and after    *)
(* the pass exactly one ingest record exists for its path.                 *)
C30_IncompleteNeverSkipped ==
    [][\A p \in DOMAIN files :
         (PassAt(p) /\ edits = 0 /\ ParsedUnclassified(p) /\ ~MatchedByIdOnly(conn, p)) =>
            /\ last'.outcome = "inserted"
            /\ (\E r \in conn.mail_ingests : r.file_path = p) => last'.purged
            /\ Cardinality({r \in conn'.mail_ingests : r.file_path = p}) = 1]_vars

\* the pass stores a terminal row, so it goes on to call upsert_mail_ingest
StoresTerminalRow ==
    conn'.seq.sales + conn'.seq.purchases = conn.seq.sales + conn.seq.purchases + 1

C32_LinksSound ==
    /\ \A r \in conn.mail_ingests :
          /\ r.sale_id # NoId => \E x \in conn.sales : x.id = r.sale_id
          /\ r.purchase_id # NoId => \E x \in conn.purchases : x.id = r.purchase_id
    /\ \A r, t \in conn.mail_ingests :
          r.id # t.id =>
             /\ r.sale_id # NoId => r.sale_id # t.sale_id
             /\ r.purchase_id # NoId => r.purchase_id # t.purchase_id

\* a pass purged its artifact and failed; the records left link the rows left
C32_Witness ==
    /\ last.purged
    /\ last.outcome = "failed"
    /\ conn.seq.mail_ingests >= 2
    /\ \E r \in conn.mail_ingests :
          /\ r.file_path # last.path
          /\ r.sale_id # NoId \/ r.purchase_id # NoId

(* C33: a call of insert_sale that is rejected leaves every table of the   *)
(* ledger as it was before the call; no customer row is added for a name   *)
(* the ledger did not know.                                                *)
C33_RejectedSaleLeavesLedger ==
    [][calls' = calls + 1 /\ last'.outcome = "insert_sale" /\ last'.err # None =>
          /\ Rows(conn') = Rows(conn)
          /\ {c.name : c \in conn'.customers} = {c.name : c \in conn.customers}]_vars

\* the exact sum of the amounts of the sales of S
RECURSIVE ExactSum(_)
ExactSum(S) ==
    IF S = {} THEN 0
    ELSE LET s == CHOOSE x \in S : TRUE IN exact_add(s.amount, ExactSum(S \ {s}))

(* C31: every customer's total_spent is at least the sum of the amounts of *)
(* the sales stored for that customer, and total_purchases is at least the *)
(* number of those sales, after runs over the inbox and CSV imports.       *)
C31_NeverUnderCount ==
    \A c \in conn.customers :
        /\ c.total_spent >= ExactSum(SalesOf(c))
        /\ c.total_purchases >= Cardinality(SalesOf(c))

====
